---- MODULE Spec2Model ----
(***************************************************************************)
(* State-machine model of the LMArena bridge (lmarena_enhanced_proxy):     *)
(* the per-model session pool (session_manager.py), the chat-completions   *)
(* handler, the response stream consumer, the peer receive loop with its   *)
(* disconnect handling and reconnection handshake, and the request         *)
(* registry with its timeout watchers, the heartbeat and the response      *)
(* codec (proxy_server.py); and the chat handler and stream processing of  *)
(* the upstream bridge (LMArenaBridge-main/api_server.py), whose state is  *)
(* kept apart under names that start with b_ or bridge_.                   *)
(*                                                                         *)
(* Scheduling model: asyncio, one step per stretch of code between two     *)
(* awaits.  The per-model asyncio.Lock is never held across a suspension,  *)
(* so every critical section is one atomic step.                           *)
(***************************************************************************)
EXTENDS Integers, Sequences, FiniteSets, TLC

\* ---------------------------------------------------------------- bounds
MaxTasks == 2          \* concurrent acquirers / chat requests
MaxSessionIds == 2     \* distinct session ids the peer may mint
MaxAdds == 2           \* add_session calls in one run
MaxChunks == 2         \* messages the peer sends for one request id
MaxQueue == 1          \* Config.BACKPRESSURE_QUEUE_SIZE, scaled down (5 in the source)
MaxCap == 2            \* largest configured Config.MAX_CONCURRENT_REQUESTS
MaxWsSessions == 1     \* session_created messages the peer sends in one run
MaxConnects == 1       \* peer connections accepted in one run of Spec
MaxReconnects == 2     \* peer connections accepted in one run of ReconnectSpec
MaxReconnectTasks == 1 \* chat requests in one run of ReconnectSpec
MaxIds == 2            \* length of a reconnection handshake's pending_request_ids
MaxLinks == 2          \* peer connections accepted in one run of LinkSpec
MaxSilence == 3        \* intervals without a pong that are told apart
MaxItems == 4          \* items one response queue delivers before "[DONE]" in CodecSpec
MaxText == 4           \* characters of text one response carries in CodecSpec
MaxDelta == 3          \* longest text delta of one item
MIN_CHUNK_SIZE == 3    \* MIN_CHUNK_SIZE of stream_generator, scaled down (40 in the source)
MAX_BUFFER_TIME == 2   \* MAX_BUFFER_TIME in poll steps, scaled down (0.5 s over 0.1 s)
MaxBridgeEvents == 2
MaxMsgs == 3
MaxContent == 7   \* content and finish events of one request in BridgeSpec

Min(a, b) == IF a < b THEN a ELSE b

Tasks == 1..MaxTasks
SessionIds == 1..MaxSessionIds
Models == {"m1", "m2"}
\* MODEL_REGISTRY as pushed by the peer: "m2" is a model name it does not list
MODEL_REGISTRY == {"m1"}
RequestModels == Models

\* SessionStatus (session_manager.py:7-10)
AVAILABLE == "available"
IN_USE == "in_use"
UNHEALTHY == "unhealthy"
SessionStatus == {AVAILABLE, IN_USE, UNHEALTHY}

VARIABLES
    model_order,     \* keys of _session_pools/_locks/_request_queues, in insertion order
    session_pools,   \* _session_pools: model -> sequence of Session
    queue_items,     \* _request_queues[m]: number of sentinels stored in the queue
    queue_getters,   \* _request_queues[m]: tasks suspended in queue.get(), FIFO
    acq,             \* per task: where its acquire_session call stands and what it returned
    leases,          \* history: per pool entry, acquire returns not yet ended by a release/mark
    unreleased,      \* history: per pool entry, acquire returns not yet ended by a release
    browser_ws,      \* 0: None, otherwise the number of the connection it references
    connects,        \* peer connections accepted so far
    max_concurrent,  \* Config.MAX_CONCURRENT_REQUESTS as configured
    hpc,             \* per request: position of chat_completions
    hmodel,          \* per request: model_name
    http,            \* per request: HTTP status answered (0: none yet)
    response_channels, \* request ids that are keys of response_channels
    response_queue,  \* per request: items of its response_queue
    active_requests, \* request_manager.active_requests: status, or "absent"
    stask,           \* per request: position of send_to_browser_task
    spc,             \* per request: position of stream_generator
    sbuf,            \* per request: streaming_buffer is non-empty
    sse,             \* per request: frames stream_generator has yielded
    rx_blocked,      \* the message the receive loop is suspended on in queue.put
    ws_ack,          \* the restoration_ack the receive loop is sending
    fin,             \* the disconnect clean-up suspended in queue.put: channels left to visit
    watch,           \* per request: request_timeout_watcher tasks asleep that list it
    tput,            \* per request: timeout_request calls suspended in queue.put
    aborted,         \* request ids for which abort_request was sent to the peer
    peer_count,      \* history: messages the peer has sent per request id
    peer_closed,     \* history: request ids the peer has ended with [DONE] or an error
    consumed,        \* history: items stream_generator has taken, per request
    live_from,       \* history: peer_count when the response channel was created (-1: never)
    live_to,         \* history: peer_count when the request ended (-1: not yet)
    restored,        \* history: requests re-bound by a handshake since the last disconnect
    rebound,         \* history: requests whose channel a chunk re-created since the last disconnect
    dropped,         \* history: request ids for which a message was dropped as unknown
    hacq,            \* history: sessions chat_completions obtained, per request
    hrel,            \* history: release calls chat_completions made, per request
    ws_open,         \* peer connections whose websocket_endpoint is in its receive loop
    hb_tasks,        \* connections whose start_heartbeat loop is running
    hb_due,          \* heartbeat loops whose sleep of one interval is over
    hb_silence,      \* whole intervals since heartbeat.last_pong
    missed_pongs,    \* heartbeat.missed_pongs
    hb_alerts,       \* notify_disconnect calls so far
    hb_age,          \* history: per connection, whole intervals since it was accepted or sent a pong
    c_pc,            \* stream_generator of the codec run: "run", "done" or "error"
    c_items,         \* items taken from the queue so far
    c_text,          \* characters the peer has sent so far (they are numbered 1, 2, ...)
    streaming_buffer, \* stream=true: text not yet sent
    c_out,           \* stream=true: frames yielded
    accumulated_content, \* stream=false: text gathered
    c_resp,          \* stream=false: the JSON body yielded (<<>>: none yet)
    finish_reason,   \* finish_reason ("none": None)
    c_wait,          \* ticks the current queue.get has waited
    c_since,         \* ticks since last_chunk_time
    c_held,          \* history: ticks since streaming_buffer was last empty
    SHUTTING_DOWN,   \* the global SHUTTING_DOWN
    shut_rest,       \* disconnect handlers suspended in a shutdown timeout_request: the requests still to time out
    shut_pending,    \* history: the requests registered and not terminal when the shutdown began
    t_pc,            \* api_server: the payload conversion: "idle" or "done"
    t_in,            \* api_server: openai_data["messages"]
    t_cfg,           \* api_server: CONFIG and the model's type as the conversion read them
    t_out,           \* api_server: message_templates of the payload returned
    e_pc,            \* create_lmarena_request_body on one string content: "idle" or "done"
    e_in,            \* the message content
    e_files,         \* files_to_upload: the positions of the data URIs taken as files
    e_removed,       \* history: the positions of e_in that are not in the new content
    e_text,          \* new_msg["content"]
    bridge_ws,       \* api_server: browser_ws is not None
    b_pc,            \* api_server: the chat request: "idle", "waiting" or "done"
    b_stream,        \* api_server: the request's stream flag
    b_known,         \* api_server: the request's model is in MODEL_NAME_TO_ID_MAP
    b_channel,       \* api_server: response_channels has the request's id
    b_sent,          \* api_server: payloads sent to the peer for the request
    b_http,          \* api_server: HTTP status answered (0: none yet)
    b_code,          \* api_server: error.code of a stream=false error body
    b_frames,        \* api_server: SSE frames yielded
    b_events,       \* api_server: content and finish events so far
    b_reason,        \* api_server: finish reason held
    b_refresh,       \* api_server: refresh commands sent to the peer
    b_cause          \* history: the upstream error that ended the request (<<>>: none)

poolVars == <<model_order, session_pools, queue_items, queue_getters, leases, unreleased>>

\* ------------------------------------------------------------ Session
Session(sid) == [session_id |-> sid, status |-> AVAILABLE]

Idle == [pc |-> "idle", model |-> "none", idx |-> 0, why |-> "none"]
Waiting(m) == [pc |-> "waiting", model |-> m, idx |-> 0, why |-> "none"]
Woken(m) == [pc |-> "woken", model |-> m, idx |-> 0, why |-> "none"]
Returned(m, i, w) == [pc |-> "returned", model |-> m, idx |-> i, why |-> w]

IsRegistered(m) == \E k \in 1..Len(model_order) : model_order[k] = m

PoolTotal == Len(session_pools["m1"]) + Len(session_pools["m2"])

\* ------------------------------------------------- SessionManager helpers
\* a scan that keeps the last match instead of returning at the first
FirstAvailable_KeepsLast(p) ==
    IF \E i \in 1..Len(p) : p[i].status = AVAILABLE
    THEN CHOOSE i \in 1..Len(p) :
            /\ p[i].status = AVAILABLE
            /\ \A j \in (i + 1)..Len(p) : p[j].status # AVAILABLE
    ELSE 0

\* the scan `for session in pool: if session.status == AVAILABLE` : index of the
\* first available session, 0 when there is none
FirstAvailable(p) ==
    IF \E i \in 1..Len(p) : p[i].status = AVAILABLE
    THEN CHOOSE i \in 1..Len(p) :
            /\ p[i].status = AVAILABLE
            /\ \A j \in 1..(i - 1) : p[j].status # AVAILABLE
    ELSE 0

\* a selection that returns the session without changing its status
MarkInUse_Forgets(p, i) == p

\* `session.status = SessionStatus.IN_USE` on the selected session
MarkInUse(p, i) == [p EXCEPT ![i].status = IN_USE]

\* `session.status = SessionStatus.AVAILABLE` in release_session
MarkAvailable(p, i) == [p EXCEPT ![i].status = AVAILABLE]

\* `session.status = SessionStatus.UNHEALTHY` in mark_unhealthy
MarkUnhealthy(p, i) == [p EXCEPT ![i].status = UNHEALTHY]

\* `self._session_pools[model_name].append(session)` in add_session
AppendSession(p, sid) == Append(p, Session(sid))

\* `if not self._request_queues[model_name].empty()` : asyncio.Queue.empty() looks at
\* the stored items only, never at the tasks suspended in get()
QueueNotEmpty(m) == queue_items[m] > 0

\* the double loop of release_session / mark_unhealthy: pools in dict order, sessions in
\* pool order, first session whose session_id matches; <<0, 0>> when none matches
Locate(sid) ==
    LET hits == {ki \in (1..Len(model_order)) \X (1..MaxAdds + 1) :
                    /\ ki[2] <= Len(session_pools[model_order[ki[1]]])
                    /\ session_pools[model_order[ki[1]]][ki[2]].session_id = sid}
    IN IF hits = {} THEN <<0, 0>>
       ELSE CHOOSE h \in hits : \A g \in hits :
                \/ h[1] < g[1]
                \/ (h[1] = g[1] /\ h[2] <= g[2])

\* `await self._request_queues[model_name].put(None)`: the sentinel is stored and the
\* first suspended getter, if any, is made runnable
PutSentinel(m) ==
    /\ queue_items' = [queue_items EXCEPT ![m] = @ + 1]
    /\ IF queue_getters[m] # <<>>
       THEN /\ queue_getters' = [queue_getters EXCEPT ![m] = Tail(@)]
            /\ acq' = [acq EXCEPT ![Head(queue_getters[m])] = Woken(m)]
       ELSE UNCHANGED <<queue_getters, acq>>

\* "If there are waiting requests, notify one." (add_session, release_session)
NotifyOne(m) ==
    IF QueueNotEmpty(m) THEN PutSentinel(m)
    ELSE UNCHANGED <<queue_items, queue_getters, acq>>

RemoveTask(q, t) == SelectSeq(q, LAMBDA x : x # t)

\* ------------------------------------------------ SessionManager operations
register_model(m) ==
    /\ ~IsRegistered(m)
    /\ model_order' = Append(model_order, m)
    /\ UNCHANGED <<session_pools, queue_items, queue_getters, leases, unreleased, acq>>

add_session(sid, m) ==
    /\ PoolTotal < MaxAdds
    /\ model_order' = IF IsRegistered(m) THEN model_order ELSE Append(model_order, m)
    /\ session_pools' = [session_pools EXCEPT ![m] = AppendSession(@, sid)]
    /\ leases' = [leases EXCEPT ![m] = Append(@, 0)]
    /\ unreleased' = [unreleased EXCEPT ![m] = Append(@, 0)]
    /\ NotifyOne(m)

\* the locked scan of acquire_session, for task t on a registered model m: take the
\* first available session and return it, or report that there is none
ScanAndTake(t, m, onNone) ==
    LET i == FirstAvailable(session_pools[m]) IN
    IF i > 0
    THEN /\ session_pools' = [session_pools EXCEPT ![m] = MarkInUse(@, i)]
         /\ leases' = [leases EXCEPT ![m][i] = @ + 1]
         /\ unreleased' = [unreleased EXCEPT ![m][i] = @ + 1]
         /\ acq' = [acq EXCEPT ![t] = Returned(m, i, "session")]
    ELSE /\ acq' = [acq EXCEPT ![t] = onNone]
         /\ UNCHANGED <<session_pools, leases, unreleased>>

\* acquire_session from its call up to its first suspension (or its return)
acquire_session(t, m) ==
    /\ acq[t].pc = "idle"
    /\ UNCHANGED model_order
    /\ IF ~IsRegistered(m)
       THEN /\ acq' = [acq EXCEPT ![t] = Returned(m, 0, "unregistered")]
            /\ UNCHANGED <<session_pools, leases, unreleased, queue_items, queue_getters>>
       ELSE IF FirstAvailable(session_pools[m]) > 0
       THEN /\ ScanAndTake(t, m, Idle)
            /\ UNCHANGED <<queue_items, queue_getters>>
       ELSE IF QueueNotEmpty(m)
       THEN \* queue.get() returns at once with a stored sentinel; second scan
            /\ queue_items' = [queue_items EXCEPT ![m] = @ - 1]
            /\ ScanAndTake(t, m, Returned(m, 0, "woke_no_session"))
            /\ UNCHANGED queue_getters
       ELSE \* suspended in wait_for(queue.get(), timeout)
            /\ queue_getters' = [queue_getters EXCEPT ![m] = Append(@, t)]
            /\ acq' = [acq EXCEPT ![t] = Waiting(m)]
            /\ UNCHANGED <<session_pools, leases, unreleased, queue_items>>

\* acquire_session resumes from wait_for(queue.get(), timeout): with a sentinel
\* (second scan; None when it finds nothing) or with asyncio.TimeoutError (None)
acquire_session_resume(t) ==
    LET m == acq[t].model IN
    /\ acq[t].pc \in {"waiting", "woken"}
    /\ UNCHANGED model_order
    /\ IF acq[t].pc = "woken"
       THEN IF QueueNotEmpty(m)
            THEN /\ queue_items' = [queue_items EXCEPT ![m] = @ - 1]
                 /\ ScanAndTake(t, m, Returned(m, 0, "woke_no_session"))
                 /\ UNCHANGED queue_getters
            ELSE \* the sentinel was taken by another get(): suspended again
                 /\ queue_getters' = [queue_getters EXCEPT ![m] = Append(@, t)]
                 /\ acq' = [acq EXCEPT ![t] = Waiting(m)]
                 /\ UNCHANGED <<session_pools, leases, unreleased, queue_items>>
       ELSE \* the timeout of wait_for elapsed
            /\ queue_getters' = [queue_getters EXCEPT ![m] = RemoveTask(@, t)]
            /\ acq' = [acq EXCEPT ![t] = Returned(m, 0, "timeout")]
            /\ UNCHANGED <<session_pools, leases, unreleased, queue_items>>

release_session(sid) ==
    LET h == Locate(sid) IN
    /\ UNCHANGED model_order
    /\ IF h = <<0, 0>>
       THEN UNCHANGED <<session_pools, leases, unreleased, queue_items, queue_getters, acq>>
       ELSE LET m == model_order[h[1]] IN
            /\ session_pools' = [session_pools EXCEPT ![m] = MarkAvailable(@, h[2])]
            /\ leases' = [leases EXCEPT ![m][h[2]] = IF @ > 0 THEN @ - 1 ELSE 0]
            /\ unreleased' = [unreleased EXCEPT ![m][h[2]] = IF @ > 0 THEN @ - 1 ELSE 0]
            /\ NotifyOne(m)

mark_unhealthy(sid) ==
    LET h == Locate(sid) IN
    /\ UNCHANGED <<model_order, queue_items, queue_getters, acq, unreleased>>
    /\ IF h = <<0, 0>>
       THEN UNCHANGED <<session_pools, leases, unreleased>>
       ELSE LET m == model_order[h[1]] IN
            /\ session_pools' = [session_pools EXCEPT ![m] = MarkUnhealthy(@, h[2])]
            /\ leases' = [leases EXCEPT ![m][h[2]] = IF @ > 0 THEN @ - 1 ELSE 0]

\* ------------------------------------------------------------------ Init
PoolInit ==
    /\ model_order = <<>>
    /\ session_pools = [m \in Models |-> <<>>]
    /\ queue_items = [m \in Models |-> 0]
    /\ queue_getters = [m \in Models |-> <<>>]
    /\ leases = [m \in Models |-> <<>>]
    /\ unreleased = [m \in Models |-> <<>>]
    /\ acq = [t \in Tasks |-> Idle]

hVars == <<hpc, hmodel, http, hacq, hrel>>
regVars == <<response_channels, response_queue, active_requests>>
genVars == <<spc, sbuf, sse, consumed, aborted>>
wsVars == <<browser_ws, connects, rx_blocked, ws_ack, fin>>
peerVars == <<peer_count, peer_closed>>
wdVars == <<watch, tput>>
histVars == <<live_from, live_to, restored, rebound, dropped>>

hbVars == <<hb_tasks, hb_due, hb_silence, missed_pongs, hb_alerts, hb_age>>
\* state a step of the request path leaves alone: the configuration, the set of open
\* connections, the heartbeat, the codec run and the upstream bridge
codecVars == <<c_pc, c_items, c_text, streaming_buffer, c_out, accumulated_content,
               c_resp, finish_reason, c_wait, c_since, c_held>>
bridgeVars == <<bridge_ws, b_pc, b_stream, b_known, b_channel, b_sent, b_http, b_code,
                b_frames, b_events, b_reason, b_refresh, b_cause>>
sdVars == <<SHUTTING_DOWN, shut_rest, shut_pending>>
convVars == <<t_pc, t_in, t_cfg, t_out, e_pc, e_in, e_files, e_removed, e_text>>
restVars == <<max_concurrent, convVars, sdVars, ws_open, hbVars, codecVars, bridgeVars>>

progVars == <<restVars, stask, hVars, regVars, genVars, wsVars, peerVars, wdVars,
              histVars>>

vars == <<poolVars, acq, progVars>>

Init ==
    /\ PoolInit
    /\ browser_ws = 0
    /\ connects = 0
    /\ max_concurrent \in 1..MaxCap
    /\ hpc = [r \in Tasks |-> "new"]
    /\ hmodel = [r \in Tasks |-> "none"]
    /\ http = [r \in Tasks |-> 0]
    /\ response_channels = [r \in Tasks |-> FALSE]
    /\ response_queue = [r \in Tasks |-> <<>>]
    /\ active_requests = [r \in Tasks |-> "absent"]
    /\ stask = [r \in Tasks |-> "none"]
    /\ spc = [r \in Tasks |-> "none"]
    /\ sbuf = [r \in Tasks |-> FALSE]
    /\ sse = [r \in Tasks |-> <<>>]
    /\ rx_blocked = <<>>
    /\ ws_ack = <<>>
    /\ fin = <<>>
    /\ watch = [r \in Tasks |-> 0]
    /\ tput = [r \in Tasks |-> 0]
    /\ aborted = {}
    /\ peer_count = [r \in Tasks |-> 0]
    /\ peer_closed = {}
    /\ consumed = [r \in Tasks |-> <<>>]
    /\ live_from = [r \in Tasks |-> -1]
    /\ live_to = [r \in Tasks |-> -1]
    /\ restored = {}
    /\ rebound = {}
    /\ dropped = {}
    /\ hacq = [r \in Tasks |-> 0]
    /\ hrel = [r \in Tasks |-> 0]
    /\ ws_open = {}
    /\ SHUTTING_DOWN = FALSE
    /\ shut_rest = <<>>
    /\ shut_pending = {}
    /\ hb_tasks = {}
    /\ hb_due = {}
    /\ hb_silence = 0
    /\ missed_pongs = 0
    /\ hb_alerts = 0
    /\ hb_age = <<>>
    /\ c_pc = "run"
    /\ c_items = 0
    /\ c_text = 0
    /\ streaming_buffer = <<>>
    /\ c_out = <<>>
    /\ accumulated_content = <<>>
    /\ c_resp = <<>>
    /\ finish_reason = "none"
    /\ c_wait = 0
    /\ c_since = 0
    /\ c_held = 0
    /\ t_pc = "idle"
    /\ t_in = <<>>
    /\ t_cfg = <<>>
    /\ t_out = <<>>
    /\ e_pc = "idle"
    /\ e_in = <<>>
    /\ e_files = <<>>
    /\ e_removed = {}
    /\ e_text = <<>>
    /\ bridge_ws = FALSE
    /\ b_pc = "idle"
    /\ b_stream = FALSE
    /\ b_known = FALSE
    /\ b_channel = FALSE
    /\ b_sent = 0
    /\ b_http = 0
    /\ b_code = "none"
    /\ b_frames = <<>>
    /\ b_events = 0
    /\ b_reason = "stop"
    /\ b_refresh = 0
    /\ b_cause = <<>>
\* ------------------------------------------ the pool under arbitrary callers
ApiRegister == \E m \in Models : register_model(m) /\ UNCHANGED progVars
ApiAddSession == \E sid \in SessionIds, m \in Models : add_session(sid, m) /\ UNCHANGED progVars
ApiAcquire == \E t \in Tasks, m \in Models : acquire_session(t, m) /\ UNCHANGED progVars
ApiResume == \E t \in Tasks : acquire_session_resume(t) /\ UNCHANGED progVars
ApiReturn ==
    \E t \in Tasks :
        /\ acq[t].pc = "returned"
        /\ acq' = [acq EXCEPT ![t] = Idle]
        /\ UNCHANGED poolVars
        /\ UNCHANGED progVars
ApiRelease == \E sid \in SessionIds : release_session(sid) /\ UNCHANGED progVars
ApiMarkUnhealthy == \E sid \in SessionIds : mark_unhealthy(sid) /\ UNCHANGED progVars

PoolNext ==
    \/ ApiRegister
    \/ ApiAddSession
    \/ ApiAcquire
    \/ ApiResume
    \/ ApiReturn
    \/ ApiRelease
    \/ ApiMarkUnhealthy

PoolSpec == Init /\ [][PoolNext]_vars

\* ------------------------------------------------- request registry helpers
\* RequestStatus (COMPLETED is set only in the statement before the entry is deleted)
PENDING == "pending"
SENT_TO_BROWSER == "sent_to_browser"
PROCESSING == "processing"
TIMEOUT == "timeout"
ERROR == "error"

ActiveCount == Cardinality({r \in Tasks : active_requests[r] # "absent"})

\* PersistentRequestManager.update_status
update_status(reg, rid, st) ==
    IF reg[rid] # "absent" THEN [reg EXCEPT ![rid] = st] ELSE reg

\* PersistentRequestManager.complete_request (the request is deleted)
complete_request(reg, rid) == [reg EXCEPT ![rid] = "absent"]

\* PersistentRequestManager.get_pending_requests
get_pending_requests == {r \in Tasks : active_requests[r] \in {SENT_TO_BROWSER, PROCESSING}}

\* ----------------------------------------------------- response channels
\* an item of a response queue: a peer message number k > 0 tagged rid, or (k = 0) an
\* error dict the server itself puts on the queue
Chunk(rid, k, kd) == [tag |-> rid, n |-> k, kind |-> kd]

ErrorItem(rid) == Chunk(rid, 0, "error")

\* `await queue.put(data)`
Enqueue(q, d) == Append(q, d)

\* a lookup that ignores the id and takes the first request's queue
TargetQueue_IgnoresId(rid) == 1

\* `queue = response_channels[request_id]` / `persistent_req.response_queue`: the
\* queue a message tagged rid is put on is the one created for request rid
TargetQueue(rid) == rid

\* a put that never finds the queue full
QueueFull_Never(rid) == FALSE

\* `await queue.put` suspends: the queue holds maxsize items
QueueFull(rid) == Len(response_queue[TargetQueue(rid)]) >= MaxQueue

\* what the receive loop does once its put has gone through
AfterPut(reg, rid, d, restore) ==
    LET r1 == IF restore THEN update_status(reg, rid, PROCESSING) ELSE reg
    IN IF d.kind = "done" THEN complete_request(r1, rid) ELSE r1

\* a request stops being live when it has neither a response_channels entry nor a
\* registry entry: from then on the receive loop drops what the peer sends for it
EndLive(lt, ch, reg) ==
    [r \in Tasks |-> IF lt[r] < 0 /\ live_from[r] >= 0 /\ ~ch[r] /\ reg[r] = "absent"
                     THEN peer_count[r]
                     ELSE lt[r]]

\* --------------------------------------------------------- chat_completions
\* the method chat_completions calls on the pool to obtain a session
get_session(t, m) == acquire_session(t, m)

\* the except clauses of chat_completions: the HTTP status for an exception
ExceptStatus(exc) == IF exc = "TimeoutError" THEN 504 ELSE 500

\* a finally clause that releases only when the response was built
FinallyReleases_OnSuccessOnly(r) ==
    acq[r].pc = "returned" /\ acq[r].idx > 0 /\ http[r] = 200

\* `if session:` in the finally clause
FinallyReleases(r) == acq[r].pc = "returned" /\ acq[r].idx > 0

\* chat_completions once the pool call has come back: with a session it goes on to
\* register the request; with None `session.session_id` raises AttributeError
AfterGetSession(r) ==
    IF acq'[r].pc = "returned"
    THEN IF acq'[r].idx > 0
         THEN /\ hpc' = [hpc EXCEPT ![r] = "add_request"]
              /\ hacq' = [hacq EXCEPT ![r] = @ + 1]
              /\ UNCHANGED http
         ELSE /\ hpc' = [hpc EXCEPT ![r] = "done"]
              /\ http' = [http EXCEPT ![r] = ExceptStatus("AttributeError")]
              /\ UNCHANGED hacq
    ELSE UNCHANGED <<hpc, http, hacq>>

\* the checks chat_completions makes before it asks for a session: the status it
\* raises, or 0 when the request goes on
PreflightStatus(connected, m) ==
    IF ~connected THEN 503
    ELSE IF m \notin MODEL_REGISTRY THEN 404
    ELSE 0

HStart(r) ==
    /\ hpc[r] = "new"
    /\ \E m \in RequestModels :
          LET st == PreflightStatus(browser_ws # 0, m) IN
          IF st # 0
          THEN /\ http' = [http EXCEPT ![r] = st]
               /\ hpc' = [hpc EXCEPT ![r] = "done"]
               /\ hmodel' = IF st = 503 THEN hmodel ELSE [hmodel EXCEPT ![r] = m]
          ELSE /\ hpc' = [hpc EXCEPT ![r] = "get_session"]
               /\ hmodel' = [hmodel EXCEPT ![r] = m]
               /\ UNCHANGED http
    /\ UNCHANGED <<poolVars, acq, restVars, stask, hacq, hrel, regVars, genVars,
                   wsVars, peerVars, wdVars, histVars>>

HGetSession(r) ==
    /\ hpc[r] = "get_session"
    /\ get_session(r, hmodel[r])
    /\ AfterGetSession(r)
    /\ UNCHANGED <<restVars, stask, hmodel, hrel, regVars, genVars, wsVars,
                   peerVars, wdVars, histVars>>

HGetSessionResume(r) ==
    /\ hpc[r] = "get_session"
    /\ acquire_session_resume(r)
    /\ AfterGetSession(r)
    /\ UNCHANGED <<restVars, stask, hmodel, hrel, regVars, genVars, wsVars,
                   peerVars, wdVars, histVars>>

\* the client goes away while the handler is suspended in the pool's wait queue:
\* CancelledError passes the except clauses; finally finds session = None
HCancelWaiting(r) ==
    /\ hpc[r] = "get_session"
    /\ acq[r].pc = "waiting"
    /\ queue_getters' = [queue_getters EXCEPT ![acq[r].model] = RemoveTask(@, r)]
    /\ acq' = [acq EXCEPT ![r].pc = "cancelled"]
    /\ hpc' = [hpc EXCEPT ![r] = "cancelled"]
    /\ UNCHANGED <<model_order, session_pools, queue_items, leases, unreleased,
                   restVars, stask, hmodel, http, hacq, hrel, regVars, genVars,
                   wsVars, peerVars, wdVars, histVars>>

\* response queue, response_channels entry, add_request, send task, response object
HAddRequest(r) ==
    /\ hpc[r] = "add_request"
    /\ response_queue' = [response_queue EXCEPT ![r] = <<>>]
    /\ response_channels' = [response_channels EXCEPT ![r] = TRUE]
    /\ live_from' = [live_from EXCEPT ![r] = peer_count[r]]
    /\ hpc' = [hpc EXCEPT ![r] = "finally"]
    /\ IF ActiveCount >= max_concurrent
       THEN \* add_request raises HTTPException(503); `except Exception` answers
            /\ http' = [http EXCEPT ![r] = ExceptStatus("HTTPException")]
            /\ UNCHANGED <<active_requests, stask>>
       ELSE /\ active_requests' = [active_requests EXCEPT ![r] = PENDING]
            /\ stask' = [stask EXCEPT ![r] = "start"]
            /\ http' = [http EXCEPT ![r] = 200]
    /\ UNCHANGED <<poolVars, acq, restVars, hmodel, hacq, hrel, genVars, wsVars,
                   peerVars, wdVars, live_to, restored, rebound,
                   dropped>>

\* the finally clause; after it the response (if any) starts to stream
HFinally(r) ==
    /\ hpc[r] = "finally"
    /\ hpc' = [hpc EXCEPT ![r] = "done"]
    /\ IF FinallyReleases(r)
       THEN /\ release_session(session_pools[acq[r].model][acq[r].idx].session_id)
            /\ hrel' = [hrel EXCEPT ![r] = @ + 1]
       ELSE UNCHANGED <<poolVars, acq, hrel>>
    /\ spc' = [spc EXCEPT ![r] = IF http[r] = 200 THEN "ready" ELSE @]
    /\ UNCHANGED <<restVars, stask, hmodel, http, hacq, regVars, sbuf, sse,
                   consumed, aborted, wsVars, peerVars, wdVars, histVars>>

\* ------------------------------------------------------ send_to_browser_task
\* browser_ws is None: an error item, the request stays registered.  Otherwise the
\* payload is built and sent: a request body without "messages" (KeyError), or a
\* send_text that raises, ends in the except clause with an error item and status
\* ERROR; else the task is suspended in send_text and the peer has the request.
TSend(r) ==
    /\ stask[r] = "start"
    /\ IF browser_ws = 0
       THEN /\ stask' = [stask EXCEPT ![r] = "failed"]
            /\ response_queue' =
                 [response_queue EXCEPT ![r] =
                    IF active_requests[r] # "absent" THEN Enqueue(@, ErrorItem(r)) ELSE @]
            /\ UNCHANGED active_requests
       ELSE \E raises \in BOOLEAN :
               IF raises
               THEN /\ stask' = [stask EXCEPT ![r] = "failed"]
                    /\ response_queue' =
                         [response_queue EXCEPT ![r] =
                            IF active_requests[r] # "absent"
                            THEN Enqueue(@, ErrorItem(r)) ELSE @]
                    /\ active_requests' = update_status(active_requests, r, ERROR)
               ELSE /\ stask' = [stask EXCEPT ![r] = "sent"]
                    /\ UNCHANGED <<response_queue, active_requests>>
    /\ UNCHANGED <<poolVars, acq, restVars, hVars, response_channels, genVars,
                   wsVars, peerVars, wdVars, histVars>>

\* send_text has returned: mark_sent_to_browser
TMarkSent(r) ==
    /\ stask[r] = "sent"
    /\ stask' = [stask EXCEPT ![r] = "done"]
    /\ active_requests' = update_status(active_requests, r, SENT_TO_BROWSER)
    /\ UNCHANGED <<poolVars, acq, restVars, hVars, response_channels,
                   response_queue, genVars, wsVars, peerVars, wdVars, histVars>>

\* ----------------------------------------------------------- stream_generator
\* an error frame with no [DONE] after it
ErrorFrames_NoDone == <<"error">>

\* an error item on the queue, or upstream error JSON: one yield of the error frame
\* followed by `data: [DONE]`, then return
ErrorFrames == <<"error", "done">>

\* after [DONE] from the peer: the buffered content, the frame carrying finish_reason,
\* `data: [DONE]`
FinalFrames(buffered) ==
    (IF buffered THEN <<"content">> ELSE <<>>) \o <<"finish", "done">>

\* the finally clause: drop the channel, complete the request
Cleanup(r) ==
    /\ response_channels' = [response_channels EXCEPT ![r] = FALSE]
    /\ active_requests' = complete_request(active_requests, r)
    /\ live_to' = EndLive(live_to, response_channels', active_requests')

SStart(r) ==
    /\ spc[r] = "ready"
    /\ IF response_channels[r]
       THEN /\ spc' = [spc EXCEPT ![r] = "running"]
            /\ UNCHANGED <<response_channels, live_to>>
       ELSE IF active_requests[r] # "absent"
       THEN /\ spc' = [spc EXCEPT ![r] = "running"]
            /\ response_channels' = [response_channels EXCEPT ![r] = TRUE]
            /\ UNCHANGED live_to
       ELSE \* "Queue not found!": returns before the try block
            /\ spc' = [spc EXCEPT ![r] = "done"]
            /\ live_to' = EndLive(live_to, response_channels, active_requests)
            /\ UNCHANGED response_channels
    /\ UNCHANGED <<poolVars, acq, restVars, stask, hVars, response_queue,
                   active_requests, sbuf, sse, consumed, aborted, wsVars, peerVars,
                   wdVars, live_from, restored,
                   rebound, dropped>>

\* one item taken from the queue.  A content delta is yielded at once or kept in the
\* buffer, as its size and the time since the last frame decide.
SConsume(r) ==
    /\ spc[r] = "running"
    /\ response_queue[r] # <<>>
    /\ LET d == Head(response_queue[r]) IN
       /\ response_queue' = [response_queue EXCEPT ![r] = Tail(@)]
       /\ consumed' = [consumed EXCEPT ![r] = Append(@, d)]
       /\ IF d.kind = "done"
          THEN /\ sse' = [sse EXCEPT ![r] = @ \o FinalFrames(sbuf[r])]
               /\ sbuf' = [sbuf EXCEPT ![r] = FALSE]
               /\ spc' = [spc EXCEPT ![r] = "done"]
               /\ Cleanup(r)
          ELSE IF d.kind = "error"
          THEN /\ sse' = [sse EXCEPT ![r] = @ \o ErrorFrames]
               /\ spc' = [spc EXCEPT ![r] = "done"]
               /\ Cleanup(r)
               /\ UNCHANGED sbuf
          ELSE /\ \E now \in BOOLEAN :
                     IF now
                     THEN /\ sse' = [sse EXCEPT ![r] = Append(@, "content")]
                          /\ sbuf' = [sbuf EXCEPT ![r] = FALSE]
                     ELSE /\ sbuf' = [sbuf EXCEPT ![r] = TRUE]
                          /\ UNCHANGED sse
               /\ UNCHANGED <<spc, response_channels, active_requests, live_to>>
    /\ UNCHANGED <<poolVars, acq, restVars, stask, hVars, aborted, wsVars,
                   peerVars, wdVars, live_from, restored,
                   rebound, dropped>>

\* the 0.1 s poll found nothing and the buffer is older than MAX_BUFFER_TIME
SFlush(r) ==
    /\ spc[r] = "running"
    /\ response_queue[r] = <<>>
    /\ sbuf[r]
    /\ sse' = [sse EXCEPT ![r] = Append(@, "content")]
    /\ sbuf' = [sbuf EXCEPT ![r] = FALSE]
    /\ UNCHANGED <<poolVars, acq, restVars, stask, hVars, regVars, spc, consumed,
                   aborted, wsVars, peerVars, wdVars, histVars>>

\* the client disconnects while the response streams: CancelledError in the generator
SCancel(r) ==
    /\ spc[r] = "running"
    /\ spc' = [spc EXCEPT ![r] = "cancelled"]
    /\ aborted' = IF browser_ws # 0 THEN aborted \cup {r} ELSE aborted
    /\ Cleanup(r)
    /\ UNCHANGED <<poolVars, acq, restVars, stask, hVars, response_queue, sbuf,
                   sse, consumed, wsVars, peerVars, wdVars, live_from, restored,
                   rebound, dropped>>

\* the client has gone before the response body is first iterated: the generator is
\* never started, so neither its except clause nor its finally clause runs
SCancelUnstarted(r) ==
    /\ spc[r] = "ready"
    /\ spc' = [spc EXCEPT ![r] = "cancelled"]
    /\ UNCHANGED <<poolVars, acq, restVars, stask, hVars, regVars, sbuf, sse,
                   consumed, aborted, wsVars, peerVars, wdVars, histVars>>
\* ---------------------------------------------------------- websocket_endpoint
\* the receive loop is at `await websocket.receive_text()`
RxIdle == rx_blocked = <<>> /\ ws_ack = <<>>

\* the keys of response_channels, in the order the clean-up visits them
ChannelSeq == SelectSeq([i \in 1..MaxTasks |-> i], LAMBDA r : response_channels[r])

NoChannels == [r \in Tasks |-> FALSE]

\* the session ids the peer mints
WsSessionIds == 1..MaxWsSessions

\* websocket_endpoint up to its receive loop: accept, `browser_ws = websocket` whatever
\* browser_ws was, and a heartbeat task for the connection, which starts with a check
WsAccept(limit) ==
    /\ connects < limit
    /\ browser_ws' = connects + 1
    /\ connects' = connects + 1
    /\ ws_open' = ws_open \cup {connects + 1}
    /\ hb_tasks' = hb_tasks \cup {connects + 1}
    /\ hb_due' = hb_due \cup {connects + 1}
    /\ hb_age' = Append(hb_age, 0)
    /\ UNCHANGED <<poolVars, acq, max_concurrent, convVars, sdVars, codecVars, bridgeVars, stask, hVars, regVars, genVars,
                   rx_blocked, ws_ack, fin, peerVars, wdVars, histVars, hb_silence,
                   missed_pongs, hb_alerts>>

\* a peer connects (or connects again) while none is bound; `limit` bounds the
\* connections of one run
WsConnect(limit) == browser_ws = 0 /\ WsAccept(limit)

\* a peer connects while another connection is bound
WsReplace(limit) == browser_ws # 0 /\ WsAccept(limit)

\* message type session_created
WsSessionCreated ==
    /\ browser_ws # 0
    /\ RxIdle
    /\ PoolTotal < MaxWsSessions
    /\ \E sid \in WsSessionIds, m \in Models : add_session(sid, m)
    /\ UNCHANGED progVars

\* the loop over pending_request_ids of a reconnection_handshake
RECURSIVE RestoreLoop(_, _)
RestoreLoop(ids, st) ==
    IF ids = <<>>
    THEN st
    ELSE LET id == Head(ids) IN
         RestoreLoop(Tail(ids),
                     IF st.reg[id] # "absent"
                     THEN [reg |-> update_status(st.reg, id, PROCESSING),
                           ch |-> [st.ch EXCEPT ![id] = TRUE],
                           count |-> st.count + 1]
                     ELSE st)

IdLists == UNION {[1..n -> Tasks] : n \in 0..MaxIds}

\* message type reconnection_handshake, up to the send of restoration_ack
WsHandshake ==
    /\ browser_ws # 0
    /\ RxIdle
    /\ \E ids \in IdLists :
          LET out == RestoreLoop(ids, [reg |-> active_requests, ch |-> response_channels,
                                       count |-> 0])
          IN /\ active_requests' = out.reg
             /\ response_channels' = out.ch
             /\ ws_ack' = <<[ids |-> ids, restored_count |-> out.count]>>
             /\ restored' = restored \cup
                              {r \in Tasks : active_requests[r] # "absent"
                                             /\ \E i \in 1..Len(ids) : ids[i] = r}
    /\ UNCHANGED <<poolVars, acq, restVars, stask, hVars, response_queue, genVars,
                   browser_ws, connects, rx_blocked, fin, peerVars, wdVars, live_from,
                   live_to, rebound, dropped>>

\* restoration_ack has been sent (or the send has failed): back to receive_text
WsAckSent ==
    /\ ws_ack # <<>>
    /\ ws_ack' = <<>>
    /\ UNCHANGED <<poolVars, acq, restVars, stask, hVars, regVars, genVars,
                   browser_ws, connects, rx_blocked, fin, peerVars, wdVars, histVars>>

\* a receive loop that never looks in the registry
RestoresFromRegistry_Never(reg, rid) == FALSE

\* `persistent_req = request_manager.get_request(request_id)` / `if persistent_req`
RestoresFromRegistry(reg, rid) == reg[rid] # "absent"

\* a {request_id, data} message: routed by id to the response channel
Route(rid, d) ==
    LET reg == update_status(active_requests, rid, PROCESSING) IN
    IF response_channels[rid]
    THEN /\ UNCHANGED <<response_channels, rebound, dropped>>
         /\ IF QueueFull(rid)
            THEN /\ rx_blocked' = <<[rid |-> rid, data |-> d, restore |-> FALSE]>>
                 /\ active_requests' = reg
                 /\ UNCHANGED response_queue
            ELSE /\ response_queue' = [response_queue EXCEPT ![TargetQueue(rid)] = Enqueue(@, d)]
                 /\ active_requests' = AfterPut(reg, rid, d, FALSE)
                 /\ UNCHANGED rx_blocked
    ELSE IF RestoresFromRegistry(reg, rid)
    THEN /\ response_channels' = [response_channels EXCEPT ![rid] = TRUE]
         /\ rebound' = rebound \cup {rid}
         /\ UNCHANGED dropped
         /\ IF QueueFull(rid)
            THEN /\ rx_blocked' = <<[rid |-> rid, data |-> d, restore |-> TRUE]>>
                 /\ active_requests' = reg
                 /\ UNCHANGED response_queue
            ELSE /\ response_queue' = [response_queue EXCEPT ![TargetQueue(rid)] = Enqueue(@, d)]
                 /\ active_requests' = AfterPut(reg, rid, d, TRUE)
                 /\ UNCHANGED rx_blocked
    ELSE \* "unknown/closed request": dropped
         /\ dropped' = dropped \cup {rid}
         /\ UNCHANGED <<response_channels, response_queue, active_requests, rx_blocked,
                        rebound>>

\* the peer sends content, [DONE] or an error for a request it was sent; [DONE] and an
\* error are the last message it sends for that id
WsChunk ==
    /\ browser_ws # 0
    /\ RxIdle
    /\ \E rid \in Tasks, kd \in {"chunk", "done", "error"} :
          /\ stask[rid] \in {"sent", "done"}
          /\ rid \notin peer_closed
          /\ peer_count[rid] < MaxChunks
          /\ peer_count' = [peer_count EXCEPT ![rid] = @ + 1]
          /\ peer_closed' = IF kd = "chunk" THEN peer_closed ELSE peer_closed \cup {rid}
          /\ Route(rid, Chunk(rid, peer_count[rid] + 1, kd))
    /\ UNCHANGED <<poolVars, acq, restVars, stask, hVars, genVars, browser_ws,
                   connects, ws_ack, fin, wdVars, live_from, live_to, restored>>

\* the suspended put goes through once the consumer has made room
WsPutResume ==
    /\ rx_blocked # <<>>
    /\ LET b == rx_blocked[1] IN
       /\ ~QueueFull(b.rid)
       /\ response_queue' = [response_queue EXCEPT ![TargetQueue(b.rid)] = Enqueue(@, b.data)]
       /\ active_requests' = AfterPut(active_requests, b.rid, b.data, b.restore)
    /\ rx_blocked' = <<>>
    /\ UNCHANGED <<poolVars, acq, restVars, stask, hVars, response_channels,
                   genVars, browser_ws, connects, ws_ack, fin, peerVars, wdVars,
                   histVars>>

\* a clean-up that takes every channel for orphaned
Orphaned_Always(reg, r) == TRUE

\* `if not request_manager.get_request(request_id)`: the channel's request is no
\* longer in the registry
Orphaned(reg, r) == reg[r] = "absent"

\* the loop of the disconnect clean-up: an error item for every channel whose request
\* is not in the registry; it stops where a put finds the queue full
RECURSIVE FinRun(_, _, _)
FinRun(rest, q, reg) ==
    IF rest = <<>>
    THEN [q |-> q, rest |-> <<>>]
    ELSE LET r == Head(rest) IN
         IF ~Orphaned(reg, r)
         THEN FinRun(Tail(rest), q, reg)
         ELSE IF Len(q[r]) >= MaxQueue
         THEN [q |-> q, rest |-> rest]
         ELSE FinRun(Tail(rest), [q EXCEPT ![r] = Enqueue(@, ErrorItem(r))], reg)

\* the requests get_pending_requests returns, in the order of the registry
PendingSeq == SelectSeq([i \in 1..MaxTasks |-> i], LAMBDA r : r \in get_pending_requests)

\* handle_browser_disconnect while SHUTTING_DOWN: timeout_request for every pending
\* request in turn (status TIMEOUT, the error dict put on its queue, the entry
\* deleted); it stops where a put finds the queue full
RECURSIVE TimeoutRun(_, _, _)
TimeoutRun(rest, q, reg) ==
    IF rest = <<>>
    THEN [q |-> q, reg |-> reg, rest |-> <<>>]
    ELSE LET r == Head(rest) IN
         IF reg[r] = "absent"
         THEN TimeoutRun(Tail(rest), q, reg)
         ELSE IF Len(q[r]) >= MaxQueue
         THEN [q |-> q, reg |-> [reg EXCEPT ![r] = TIMEOUT], rest |-> rest]
         ELSE TimeoutRun(Tail(rest), [q EXCEPT ![r] = Enqueue(@, ErrorItem(r))],
                         complete_request(reg, r))

\* the rest of the finally clause of websocket_endpoint after
\* handle_browser_disconnect has returned: the clean-up of the channels
FinCleanup(q, reg) ==
    LET out == FinRun(ChannelSeq, q, reg) IN
    /\ response_queue' = out.q
    /\ IF out.rest = <<>>
       THEN /\ response_channels' = NoChannels
            /\ UNCHANGED fin
       ELSE /\ fin' = Append(fin, [rest |-> out.rest, n |-> Len(ChannelSeq)])
            /\ UNCHANGED response_channels
    /\ live_to' = EndLive(live_to, response_channels', reg)

\* PersistentRequestManager.handle_browser_disconnect (not shutting down): one watcher
\* task that lists the requests whose status is sent or processing
handle_browser_disconnect(w) ==
    [r \in Tasks |-> IF r \in get_pending_requests THEN w[r] + 1 ELSE w[r]]

\* receive_text of connection c raises WebSocketDisconnect: the finally clause of
\* websocket_endpoint, which does not look at which connection browser_ws references
WsFinally(c) ==
    /\ c \in ws_open
    /\ ws_open' = ws_open \ {c}
    /\ browser_ws' = 0
    /\ restored' = {}
    /\ rebound' = {}
    /\ IF ~SHUTTING_DOWN
       THEN /\ watch' = handle_browser_disconnect(watch)
            /\ FinCleanup(response_queue, active_requests)
            /\ UNCHANGED <<active_requests, shut_rest>>
       ELSE LET t == TimeoutRun(PendingSeq, response_queue, active_requests) IN
            /\ active_requests' = t.reg
            /\ UNCHANGED watch
            /\ IF t.rest = <<>>
               THEN /\ FinCleanup(t.q, t.reg)
                    /\ UNCHANGED shut_rest
               ELSE /\ response_queue' = t.q
                    /\ shut_rest' = Append(shut_rest, t.rest)
                    /\ live_to' = EndLive(live_to, response_channels, t.reg)
                    /\ UNCHANGED <<response_channels, fin>>
    /\ UNCHANGED <<poolVars, acq, max_concurrent, convVars, SHUTTING_DOWN, shut_pending, codecVars, bridgeVars, hbVars,
                   stask, hVars, genVars, connects, rx_blocked, ws_ack, peerVars, tput,
                   live_from, dropped>>

\* the bound connection is lost
WsDisconnect == browser_ws # 0 /\ RxIdle /\ WsFinally(browser_ws)

\* a connection that browser_ws no longer references is lost
WsStaleDisconnect == \E c \in ws_open \ {browser_ws} : RxIdle /\ WsFinally(c)

DropAt(q, i) == SubSeq(q, 1, i - 1) \o SubSeq(q, i + 1, Len(q))

\* a clean-up suspended in put goes on; the dict iteration raises RuntimeError when
\* response_channels has changed size meanwhile, and clear() is then not reached
WsFinResume ==
    \E i \in 1..Len(fin) :
        LET f == fin[i]
            r == Head(f.rest)
            q1 == [response_queue EXCEPT ![r] = Enqueue(@, ErrorItem(r))]
        IN /\ Len(response_queue[r]) < MaxQueue
           /\ IF Len(ChannelSeq) # f.n
              THEN /\ response_queue' = q1
                   /\ fin' = DropAt(fin, i)
                   /\ UNCHANGED response_channels
              ELSE LET out == FinRun(SelectSeq(Tail(f.rest), LAMBDA x : response_channels[x]),
                                     q1, active_requests)
                   IN /\ response_queue' = out.q
                      /\ IF out.rest = <<>>
                         THEN /\ response_channels' = NoChannels
                              /\ fin' = DropAt(fin, i)
                         ELSE /\ fin' = [fin EXCEPT ![i] = [rest |-> out.rest, n |-> f.n]]
                              /\ UNCHANGED response_channels
           /\ live_to' = EndLive(live_to, response_channels', active_requests)
           /\ UNCHANGED <<poolVars, acq, restVars, stask, hVars, active_requests,
                          genVars, browser_ws, connects, rx_blocked, ws_ack, peerVars,
                          wdVars, live_from, restored,
                   rebound, dropped>>

\* ------------------------------------------------- request_timeout_watcher
\* the sleep of REQUEST_TIMEOUT_SECONDS is over: the watcher's check of one request it
\* lists, and timeout_request up to its put
WatcherFire(r) ==
    /\ watch[r] > 0
    /\ watch' = [watch EXCEPT ![r] = @ - 1]
    /\ IF active_requests[r] \in {SENT_TO_BROWSER, PROCESSING}
       THEN IF QueueFull(r)
            THEN /\ active_requests' = [active_requests EXCEPT ![r] = TIMEOUT]
                 /\ tput' = [tput EXCEPT ![r] = @ + 1]
                 /\ UNCHANGED <<response_queue, live_to>>
            ELSE /\ response_queue' = [response_queue EXCEPT ![r] = Enqueue(@, ErrorItem(r))]
                 /\ active_requests' = complete_request(active_requests, r)
                 /\ live_to' = EndLive(live_to, response_channels,
                                        complete_request(active_requests, r))
                 /\ UNCHANGED tput
       ELSE UNCHANGED <<active_requests, response_queue, tput, live_to>>
    /\ UNCHANGED <<poolVars, acq, restVars, stask, hVars, response_channels,
                   genVars, wsVars, peerVars, live_from, restored,
                   rebound, dropped>>

\* timeout_request's put goes through: the request is deleted (KeyError if it has
\* already gone)
WatcherPutResume(r) ==
    /\ tput[r] > 0
    /\ ~QueueFull(r)
    /\ tput' = [tput EXCEPT ![r] = @ - 1]
    /\ response_queue' = [response_queue EXCEPT ![r] = Enqueue(@, ErrorItem(r))]
    /\ active_requests' = complete_request(active_requests, r)
    /\ live_to' = EndLive(live_to, response_channels, complete_request(active_requests, r))
    /\ UNCHANGED <<poolVars, acq, restVars, stask, hVars, response_channels,
                   genVars, wsVars, peerVars, watch, live_from, restored,
                   rebound, dropped>>

\* ------------------------------------------------------------- the program
\* two chat requests against one peer connection, which may be lost
Next ==
    \/ \E r \in Tasks : HStart(r)
    \/ \E r \in Tasks : HGetSession(r)
    \/ \E r \in Tasks : HGetSessionResume(r)
    \/ \E r \in Tasks : HCancelWaiting(r)
    \/ \E r \in Tasks : HAddRequest(r)
    \/ \E r \in Tasks : HFinally(r)
    \/ \E r \in Tasks : TSend(r)
    \/ \E r \in Tasks : TMarkSent(r)
    \/ \E r \in Tasks : SStart(r)
    \/ \E r \in Tasks : SConsume(r)
    \/ \E r \in Tasks : SFlush(r)
    \/ \E r \in Tasks : SCancel(r)
    \/ \E r \in Tasks : SCancelUnstarted(r)
    \/ WsConnect(MaxConnects)
    \/ WsSessionCreated
    \/ WsChunk
    \/ WsPutResume
    \/ WsDisconnect
    \/ WsFinResume
    \/ \E r \in Tasks : WatcherFire(r)
    \/ \E r \in Tasks : WatcherPutResume(r)

Spec == Init /\ [][Next]_vars

ReconnectTasks == 1..MaxReconnectTasks

\* one chat request against a peer that disconnects, connects again and sends
\* reconnection handshakes; a single request never finds its session taken, so the
\* two steps of a parked acquire are not among the disjuncts
ReconnectNext ==
    \/ \E r \in ReconnectTasks : HStart(r)
    \/ \E r \in ReconnectTasks : HGetSession(r)
    \/ \E r \in ReconnectTasks : HAddRequest(r)
    \/ \E r \in ReconnectTasks : HFinally(r)
    \/ \E r \in ReconnectTasks : TSend(r)
    \/ \E r \in ReconnectTasks : TMarkSent(r)
    \/ \E r \in ReconnectTasks : SStart(r)
    \/ \E r \in ReconnectTasks : SConsume(r)
    \/ \E r \in ReconnectTasks : SFlush(r)
    \/ \E r \in ReconnectTasks : SCancel(r)
    \/ \E r \in ReconnectTasks : SCancelUnstarted(r)
    \/ WsConnect(MaxReconnects)
    \/ WsSessionCreated
    \/ WsHandshake
    \/ WsAckSent
    \/ WsChunk
    \/ WsPutResume
    \/ WsDisconnect
    \/ WsFinResume
    \/ \E r \in ReconnectTasks : WatcherFire(r)
    \/ \E r \in ReconnectTasks : WatcherPutResume(r)

ReconnectSpec == Init /\ [][ReconnectNext]_vars


\* ------------------------------------------------------- WebSocketHeartbeat
\* WebSocketHeartbeat.max_missed_pongs
max_missed_pongs == 3

\* `current_time - self.last_pong > self.interval * 2`, time counted in intervals
PongOverdue == hb_silence > 2

\* one interval passes; every heartbeat loop asleep comes due
HbInterval ==
    /\ hb_due = {}
    /\ hb_silence' = IF hb_silence < MaxSilence THEN hb_silence + 1 ELSE hb_silence
    /\ hb_due' = hb_tasks
    /\ hb_age' = [c \in DOMAIN hb_age |-> Min(hb_age[c] + 1, MaxSilence)]
    /\ UNCHANGED <<poolVars, acq, max_concurrent, convVars, sdVars, codecVars, bridgeVars, ws_open,
                   hb_tasks, missed_pongs, hb_alerts, stask, hVars, regVars, genVars, wsVars, peerVars, wdVars,
                   histVars>>

\* one pass of the loop of start_heartbeat for connection c: the check, then the ping;
\* the loop ends after notify_disconnect, and when send_text raises on a closed
\* connection
HbBeat(c) ==
    /\ c \in hb_due
    /\ hb_due' = hb_due \ {c}
    /\ LET m == IF PongOverdue THEN missed_pongs + 1 ELSE missed_pongs
           alert == PongOverdue /\ m >= max_missed_pongs
       IN /\ missed_pongs' = m
          /\ hb_alerts' = IF alert THEN hb_alerts + 1 ELSE hb_alerts
          /\ hb_tasks' = IF alert \/ c \notin ws_open THEN hb_tasks \ {c} ELSE hb_tasks
    /\ UNCHANGED <<poolVars, acq, max_concurrent, convVars, sdVars, codecVars, bridgeVars, ws_open,
                   hb_silence, hb_age, stask, hVars,
                   regVars, genVars, wsVars, peerVars, wdVars, histVars>>

\* message type pong on connection c: heartbeat.handle_pong()
WsPong(c) ==
    /\ c \in ws_open
    /\ RxIdle
    /\ hb_silence' = 0
    /\ missed_pongs' = 0
    /\ hb_age' = [hb_age EXCEPT ![c] = 0]
    /\ UNCHANGED <<poolVars, acq, max_concurrent, convVars, sdVars, codecVars, bridgeVars, ws_open,
                   hb_tasks, hb_due, hb_alerts,
                   stask, hVars, regVars, genVars, wsVars, peerVars, wdVars, histVars>>

\* the peer link alone: connections that come and go, also while another one is bound,
\* and the heartbeat
LinkNext ==
    \/ WsConnect(MaxLinks)
    \/ WsReplace(MaxLinks)
    \/ WsDisconnect
    \/ WsStaleDisconnect
    \/ HbInterval
    \/ \E c \in 1..MaxLinks : HbBeat(c)
    \/ \E c \in 1..MaxLinks : WsPong(c)

LinkSpec == Init /\ [][LinkNext]_vars

\* ------------------------------------------- stream_generator: the codec
\* One response queue read by stream_generator for model_type "chat", once with
\* is_streaming true and once with is_streaming false, both fed the same items.  Time
\* is counted in poll steps: the timeout of `asyncio.wait_for(queue.get(), 0.1)`.
PollTicks == 1
MaxHeld == MAX_BUFFER_TIME + PollTicks + 1

\* "finishReason" values of an `ad` item
FinishReasons == {"stop", "content-filter"}

\* the frames of a stream=true response
ContentFrame(t) == [k |-> "content", text |-> t, reason |-> "none"]
FinalFrame(fr) == [k |-> "finish", text |-> <<>>, reason |-> IF fr = "none" THEN "stop" ELSE fr]
DoneFrame == [k |-> "done", text |-> <<>>, reason |-> "none"]
ErrorFrame == [k |-> "error", text |-> <<>>, reason |-> "none"]

\* the flush test of the a0 branch
ShouldFlush(buf, since) ==
    Len(buf) >= MIN_CHUNK_SIZE \/ (buf # <<>> /\ since >= MAX_BUFFER_TIME)

\* a final flush that is left out
FinalFlush_Omitted(out, buf) == out

\* "Flush any remaining buffer content for streaming chat"
FinalFlush(out, buf) == IF buf # <<>> THEN Append(out, ContentFrame(buf)) ELSE out

\* time passes while queue.get waits
CTick ==
    /\ c_pc = "run"
    /\ c_wait < PollTicks
    /\ c_wait' = c_wait + 1
    /\ c_since' = Min(c_since + 1, MAX_BUFFER_TIME)
    /\ c_held' = IF streaming_buffer # <<>> THEN Min(c_held + 1, MaxHeld) ELSE 0
    /\ UNCHANGED <<c_pc, c_items, c_text, streaming_buffer, c_out, accumulated_content,
                   c_resp, finish_reason>>
    /\ UNCHANGED <<poolVars, acq, max_concurrent, convVars, sdVars, ws_open, hbVars, bridgeVars, stask, hVars, regVars,
                   genVars, wsVars, peerVars, wdVars, histVars>>

\* asyncio.TimeoutError: the periodic check of the buffer
CPollTimeout ==
    /\ c_pc = "run"
    /\ c_wait = PollTicks
    /\ c_wait' = 0
    /\ IF streaming_buffer # <<>> /\ c_since >= MAX_BUFFER_TIME
       THEN /\ c_out' = Append(c_out, ContentFrame(streaming_buffer))
            /\ streaming_buffer' = <<>>
            /\ c_since' = 0
            /\ c_held' = 0
       ELSE UNCHANGED <<c_out, streaming_buffer, c_since, c_held>>
    /\ UNCHANGED <<c_pc, c_items, c_text, accumulated_content, c_resp, finish_reason>>
    /\ UNCHANGED <<poolVars, acq, max_concurrent, convVars, sdVars, ws_open, hbVars, bridgeVars, stask, hVars, regVars,
                   genVars, wsVars, peerVars, wdVars, histVars>>

\* an item `a0:<delta>` with a delta of n characters
CDelta(n) ==
    /\ c_pc = "run"
    /\ c_items < MaxItems
    /\ c_text + n <= MaxText
    /\ LET delta == [i \in 1..n |-> c_text + i]
           buf == streaming_buffer \o delta
       IN /\ IF ShouldFlush(buf, c_since)
             THEN /\ c_out' = Append(c_out, ContentFrame(buf))
                  /\ streaming_buffer' = <<>>
                  /\ c_since' = 0
                  /\ c_held' = 0
             ELSE /\ streaming_buffer' = buf
                  /\ c_held' = IF streaming_buffer = <<>> THEN 0 ELSE c_held
                  /\ UNCHANGED <<c_out, c_since>>
          /\ accumulated_content' = accumulated_content \o delta
    /\ c_text' = c_text + n
    /\ c_items' = c_items + 1
    /\ c_wait' = 0
    /\ UNCHANGED <<c_pc, c_resp, finish_reason>>
    /\ UNCHANGED <<poolVars, acq, max_concurrent, convVars, sdVars, ws_open, hbVars, bridgeVars, stask, hVars, regVars,
                   genVars, wsVars, peerVars, wdVars, histVars>>

\* an item `ad:{"finishReason": ...}`
CFinish(reason) ==
    /\ c_pc = "run"
    /\ c_items < MaxItems
    /\ finish_reason' = reason
    /\ c_items' = c_items + 1
    /\ c_wait' = 0
    /\ UNCHANGED <<c_pc, c_text, streaming_buffer, c_out, accumulated_content, c_resp,
                   c_since, c_held>>
    /\ UNCHANGED <<poolVars, acq, max_concurrent, convVars, sdVars, ws_open, hbVars, bridgeVars, stask, hVars, regVars,
                   genVars, wsVars, peerVars, wdVars, histVars>>

\* an item with another prefix, or one that does not parse: nothing is done with it
COther ==
    /\ c_pc = "run"
    /\ c_items < MaxItems
    /\ c_items' = c_items + 1
    /\ c_wait' = 0
    /\ UNCHANGED <<c_pc, c_text, streaming_buffer, c_out, accumulated_content, c_resp,
                   finish_reason, c_since, c_held>>
    /\ UNCHANGED <<poolVars, acq, max_concurrent, convVars, sdVars, ws_open, hbVars, bridgeVars, stask, hVars, regVars,
                   genVars, wsVars, peerVars, wdVars, histVars>>

\* the item "[DONE]": final response generation
CDone ==
    /\ c_pc = "run"
    /\ c_pc' = "done"
    /\ c_out' = FinalFlush(c_out, streaming_buffer) \o <<FinalFrame(finish_reason), DoneFrame>>
    /\ streaming_buffer' = <<>>
    /\ c_held' = 0
    /\ c_resp' = <<[k |-> "completion", text |-> accumulated_content,
                   reason |-> IF finish_reason = "none" THEN "stop" ELSE finish_reason]>>
    /\ UNCHANGED <<c_items, c_text, accumulated_content, finish_reason, c_wait, c_since>>
    /\ UNCHANGED <<poolVars, acq, max_concurrent, convVars, sdVars, ws_open, hbVars, bridgeVars, stask, hVars, regVars,
                   genVars, wsVars, peerVars, wdVars, histVars>>

\* an error item (a dict with "error", or an error JSON from the server): the error is
\* formatted and the generator returns; what the buffer holds is not sent
CError ==
    /\ c_pc = "run"
    /\ c_pc' = "error"
    /\ c_out' = c_out \o <<ErrorFrame, DoneFrame>>
    /\ c_resp' = <<[k |-> "error", text |-> <<>>, reason |-> "none"]>>
    /\ UNCHANGED <<c_items, c_text, streaming_buffer, accumulated_content, finish_reason,
                   c_wait, c_since, c_held>>
    /\ UNCHANGED <<poolVars, acq, max_concurrent, convVars, sdVars, ws_open, hbVars, bridgeVars, stask, hVars, regVars,
                   genVars, wsVars, peerVars, wdVars, histVars>>

CodecNext ==
    \/ CTick
    \/ CPollTimeout
    \/ \E n \in 0..MaxDelta : CDelta(n)
    \/ \E reason \in FinishReasons : CFinish(reason)
    \/ COther
    \/ CDone
    \/ CError

CodecSpec == Init /\ [][CodecNext]_vars

\* ------------------------------------------- api_server.py: the upstream bridge
\* everything that is not state of api_server
proxyVars == <<poolVars, acq, max_concurrent, convVars, sdVars, ws_open, hbVars, codecVars, stask, hVars,
               regVars, genVars, wsVars, peerVars, wdVars, histVars>>

\* what an upstream error message may contain
ErrorMarks == {"413", "too large", "Too Large", "challenge"}

\* str.lower() on a mark
Lower(f) == IF f = "Too Large" THEN "too large" ELSE f

\* `'413' in error_msg or 'too large' in error_msg.lower()`
SaysTooLarge(feats) == "413" \in feats \/ \E f \in feats : Lower(f) = "too large"

\* `any(re.search(p, ..., re.IGNORECASE) for p in cloudflare_patterns)`
SaysChallenge(feats) == "challenge" \in feats

\* _process_lmarena_stream: the error event raised for an upstream error.  An error
\* object ({"error": msg} as the queue item) is tested for 413 / too large, then for
\* the challenge page; an error JSON inside the chunk stream goes through the buffer's
\* challenge test and is then raised as it is
ErrorEvent(delivery, feats) ==
    IF delivery = "object"
    THEN IF SaysTooLarge(feats) THEN "attachment_too_large"
         ELSE IF SaysChallenge(feats) THEN "cloudflare"
         ELSE "other"
    ELSE IF SaysChallenge(feats) THEN "cloudflare" ELSE "other"

\* non_stream_response: `413 if "附件大小超过了" in str(data) else 500`; the text is that
\* of the message _process_lmarena_stream makes for attachment_too_large
NonStreamStatus(event) == IF event = "attachment_too_large" THEN 413 ELSE 500

BFrame(k, kind) == [k |-> k, kind |-> kind]

\* stream_generator on an error event: error chunk, then format_openai_finish_chunk,
\* which carries "data: [DONE]"
BErrorFrames(event) == <<BFrame("error", event), BFrame("finish", "stop"), BFrame("done", "none")>>

\* the request ends with error event `event`
BFail(event) ==
    /\ b_pc' = "done"
    /\ b_channel' = FALSE
    /\ IF b_stream
       THEN /\ b_frames' = b_frames \o BErrorFrames(event)
            /\ UNCHANGED <<b_http, b_code>>
       ELSE /\ b_http' = NonStreamStatus(event)
            /\ b_code' = IF NonStreamStatus(event) = 413 THEN "attachment_too_large"
                         ELSE "processing_error"
            /\ UNCHANGED b_frames

\* websocket_endpoint: a peer connects
BWsConnect ==
    /\ ~bridge_ws
    /\ bridge_ws' = TRUE
    /\ UNCHANGED <<b_pc, b_stream, b_known, b_channel, b_sent, b_http, b_code, b_frames,
                   b_events, b_reason, b_refresh, b_cause>>
    /\ UNCHANGED proxyVars

\* websocket_endpoint: finally; every channel gets {"error": "Browser disconnected
\* during operation"}, which the waiting request reads next
BWsDisconnect ==
    /\ bridge_ws
    /\ bridge_ws' = FALSE
    /\ IF b_pc = "waiting"
       THEN BFail(ErrorEvent("object", {}))
       ELSE UNCHANGED <<b_pc, b_channel, b_http, b_code, b_frames>>
    /\ UNCHANGED <<b_stream, b_known, b_sent, b_events, b_reason, b_refresh, b_cause>>
    /\ UNCHANGED proxyVars

\* chat_completions with a valid configuration (API key and session ids pass): 503
\* without a peer; a model that is not listed is logged and the default id used
BChat(known, stream) ==
    /\ b_pc = "idle"
    /\ b_known' = known
    /\ b_stream' = stream
    /\ IF ~bridge_ws
       THEN /\ b_http' = 503
            /\ b_pc' = "done"
            /\ UNCHANGED <<b_channel, b_sent>>
       ELSE /\ b_channel' = TRUE
            /\ b_sent' = b_sent + 1
            /\ b_pc' = "waiting"
            /\ b_http' = IF stream THEN 200 ELSE 0
    /\ UNCHANGED <<bridge_ws, b_code, b_frames, b_events, b_reason, b_refresh, b_cause>>
    /\ UNCHANGED proxyVars

\* a text chunk from the peer: one content event
BContent ==
    /\ b_pc = "waiting"
    /\ bridge_ws
    /\ b_events < MaxBridgeEvents
    /\ b_events' = b_events + 1
    /\ b_frames' = IF b_stream THEN Append(b_frames, BFrame("content", "text")) ELSE b_frames
    /\ UNCHANGED <<bridge_ws, b_pc, b_stream, b_known, b_channel, b_sent, b_http, b_code,
                   b_reason, b_refresh, b_cause>>
    /\ UNCHANGED proxyVars

\* an end-of-turn marker from the peer: one finish event; content-filter adds the
\* warning text as one more content chunk
BFinish(reason) ==
    /\ b_pc = "waiting"
    /\ bridge_ws
    /\ b_events < MaxBridgeEvents
    /\ b_events' = b_events + 1
    /\ b_reason' = reason
    /\ b_frames' = IF b_stream /\ reason = "content-filter"
                   THEN Append(b_frames, BFrame("content", "content-filter-note"))
                   ELSE b_frames
    /\ UNCHANGED <<bridge_ws, b_pc, b_stream, b_known, b_channel, b_sent, b_http, b_code,
                   b_refresh, b_cause>>
    /\ UNCHANGED proxyVars

\* "[DONE]" from the peer
BDoneItem ==
    /\ b_pc = "waiting"
    /\ bridge_ws
    /\ b_pc' = "done"
    /\ b_channel' = FALSE
    /\ IF b_stream
       THEN /\ b_frames' = b_frames \o <<BFrame("finish", b_reason), BFrame("done", "none")>>
            /\ UNCHANGED b_http
       ELSE /\ b_http' = 200
            /\ UNCHANGED b_frames
    /\ UNCHANGED <<bridge_ws, b_stream, b_known, b_sent, b_code, b_events, b_reason,
                   b_refresh, b_cause>>
    /\ UNCHANGED proxyVars

\* the peer reports an upstream error, as an error object or as an error JSON inside
\* the chunk stream; a challenge page found makes the bridge send {"command":
\* "refresh"} to the peer
BErrorItem(delivery, feats) ==
    /\ b_pc = "waiting"
    /\ bridge_ws
    /\ b_cause' = <<[delivery |-> delivery, feats |-> feats]>>
    /\ b_refresh' = IF ErrorEvent(delivery, feats) = "cloudflare" /\ bridge_ws
                    THEN b_refresh + 1 ELSE b_refresh
    /\ BFail(ErrorEvent(delivery, feats))
    /\ UNCHANGED <<bridge_ws, b_stream, b_known, b_sent, b_events, b_reason>>
    /\ UNCHANGED proxyVars

BridgeNext ==
    \/ BWsConnect
    \/ BWsDisconnect
    \/ \E known \in BOOLEAN, stream \in BOOLEAN : BChat(known, stream)
    \/ BContent
    \/ \E reason \in FinishReasons : BFinish(reason)
    \/ BDoneItem
    \/ \E delivery \in {"object", "stream"}, feats \in SUBSET ErrorMarks :
          BErrorItem(delivery, feats)

BridgeSpec == Init /\ [][BridgeNext]_vars

\* ------------------------------------------------------------- lifespan (shutdown)
NoTasks == [r \in Tasks |-> 0]

\* the finally clause of lifespan: SHUTTING_DOWN is set and every task in
\* background_tasks is cancelled: the send tasks that have not finished, the timeout
\* watchers (asleep, or inside timeout_request's put, which then leaves the request in
\* the registry with status TIMEOUT) and the heartbeat loops
Shutdown ==
    /\ ~SHUTTING_DOWN
    /\ SHUTTING_DOWN' = TRUE
    /\ shut_pending' = {r \in Tasks : active_requests[r] \in {PENDING, SENT_TO_BROWSER, PROCESSING}}
    /\ stask' = [r \in Tasks |-> IF stask[r] \in {"start", "sent"} THEN "cancelled"
                                 ELSE stask[r]]
    /\ watch' = NoTasks
    /\ tput' = NoTasks
    /\ hb_tasks' = {}
    /\ hb_due' = {}
    /\ UNCHANGED <<poolVars, acq, max_concurrent, convVars, shut_rest, ws_open, hb_silence,
                   missed_pongs, hb_alerts, hb_age, codecVars, bridgeVars, hVars, regVars,
                   genVars, wsVars, peerVars, histVars>>

\* a disconnect handler suspended in the put of a shutdown timeout_request goes on:
\* `del self.active_requests[request_id]` raises KeyError when the request has gone
\* meanwhile, and the rest of the finally clause is then not reached
ShutdownPutResume ==
    \E i \in 1..Len(shut_rest) :
        LET r == Head(shut_rest[i])
            q1 == [response_queue EXCEPT ![r] = Enqueue(@, ErrorItem(r))]
        IN /\ Len(response_queue[r]) < MaxQueue
           /\ IF active_requests[r] = "absent"
              THEN /\ response_queue' = q1
                   /\ shut_rest' = DropAt(shut_rest, i)
                   /\ UNCHANGED <<active_requests, response_channels, fin, live_to>>
              ELSE LET t == TimeoutRun(Tail(shut_rest[i]), q1,
                                       complete_request(active_requests, r))
                   IN /\ active_requests' = t.reg
                      /\ IF t.rest = <<>>
                         THEN /\ FinCleanup(t.q, t.reg)
                              /\ shut_rest' = DropAt(shut_rest, i)
                         ELSE /\ response_queue' = t.q
                              /\ shut_rest' = [shut_rest EXCEPT ![i] = t.rest]
                              /\ live_to' = EndLive(live_to, response_channels, t.reg)
                              /\ UNCHANGED <<response_channels, fin>>
           /\ UNCHANGED <<poolVars, acq, max_concurrent, convVars, SHUTTING_DOWN, shut_pending, ws_open, hbVars,
                          codecVars, bridgeVars, stask, hVars, genVars, browser_ws,
                          connects, rx_blocked, ws_ack, peerVars, wdVars, live_from,
                          restored, rebound, dropped>>

\* the request path with a server that shuts down; once the shutdown has begun the
\* server takes no new request and no new connection, the requests and the connection
\* it has go on
ShutdownNext ==
    \/ \E r \in Tasks : ~SHUTTING_DOWN /\ HStart(r)
    \/ \E r \in Tasks : HGetSession(r)
    \/ \E r \in Tasks : HGetSessionResume(r)
    \/ \E r \in Tasks : HCancelWaiting(r)
    \/ \E r \in Tasks : HAddRequest(r)
    \/ \E r \in Tasks : HFinally(r)
    \/ \E r \in Tasks : TSend(r)
    \/ \E r \in Tasks : TMarkSent(r)
    \/ \E r \in Tasks : SStart(r)
    \/ \E r \in Tasks : SConsume(r)
    \/ \E r \in Tasks : SFlush(r)
    \/ \E r \in Tasks : SCancel(r)
    \/ \E r \in Tasks : SCancelUnstarted(r)
    \/ ~SHUTTING_DOWN /\ WsConnect(MaxConnects)
    \/ WsSessionCreated
    \/ WsChunk
    \/ WsPutResume
    \/ WsDisconnect
    \/ WsFinResume
    \/ \E r \in Tasks : WatcherFire(r)
    \/ \E r \in Tasks : WatcherPutResume(r)
    \/ Shutdown
    \/ ShutdownPutResume

ShutdownSpec == Init /\ [][ShutdownNext]_vars

\* ------------------------------------- api_server: convert_openai_to_lmarena_payload
\* everything the two conversions leave alone
nonConvVars == <<poolVars, acq, max_concurrent, sdVars, ws_open, hbVars, codecVars,
                 bridgeVars, stask, hVars, regVars, genVars, wsVars, peerVars, wdVars,
                 histVars>>

Roles == {"system", "user", "assistant", "developer"}

\* message contents: strings, as sequences of characters
Contents == {<<>>, <<"A">>, <<"B">>}

Message(role, content) == [role |-> role, content |-> content]

\* "\n\n"
BlankLine == <<"\n", "\n">>

\* sep.join(parts)
RECURSIVE Join(_, _)
Join(parts, sep) ==
    IF parts = <<>> THEN <<>>
    ELSE IF Len(parts) = 1 THEN parts[1]
    ELSE parts[1] \o sep \o Join(Tail(parts), sep)

\* text.strip() is empty (the contents drawn hold no whitespace)
StripsToEmpty(text) == text = <<>>

\* step 1: 'developer' becomes 'system'; _process_openai_message on a string content:
\* a user message whose text strips to nothing gets the content " "
Process(m) ==
    LET role == IF m.role = "developer" THEN "system" ELSE m.role IN
    Message(role, IF role = "user" /\ StripsToEmpty(m.content) THEN <<" ">> ELSE m.content)

processed_messages(msgs) == [i \in 1..Len(msgs) |-> Process(msgs[i])]

ContentsOf(msgs) == [i \in 1..Len(msgs) |-> msgs[i].content]

IsSystem(m) == m.role = "system"

NotSystem(m) == m.role # "system"

\* a tavern mode that leaves the list as it is
TavernMerge_Off(msgs) == msgs

\* step 2, tavern mode: the system contents joined by a blank line become one system
\* message in front, if the joined text is not empty; the other messages follow
TavernMerge(msgs) ==
    LET merged_system_prompt == Join(ContentsOf(SelectSeq(msgs, IsSystem)), BlankLine)
        other_messages == SelectSeq(msgs, NotSystem)
    IN (IF merged_system_prompt # <<>>
        THEN <<Message("system", merged_system_prompt)>>
        ELSE <<>>) \o other_messages

\* target_participant.lower()
LowerTarget(t) == IF t = "A" THEN "a" ELSE IF t = "B" THEN "b" ELSE t

\* step 6: the position every template gets, the injected one included
Position(role, cfg) ==
    IF role = "system"
    THEN IF cfg.mode = "battle" THEN LowerTarget(cfg.target) ELSE "b"
    ELSE IF cfg.mode = "battle" THEN LowerTarget(cfg.target) ELSE "a"

\* step 5: the message bypass mode injects
Placeholder == Message("user", <<" ">>)

\* steps 1 to 6: message_templates of the payload
message_templates(msgs, cfg) ==
    LET p1 == processed_messages(msgs)
        p2 == IF cfg.tavern THEN TavernMerge(p1) ELSE p1
        p3 == IF cfg.bypass /\ cfg.type = "text" THEN Append(p2, Placeholder) ELSE p2
    IN [i \in 1..Len(p3) |-> [role |-> p3[i].role, content |-> p3[i].content,
                              participantPosition |-> Position(p3[i].role, cfg)]]

\* CONFIG (tavern_mode_enabled, bypass_enabled, id_updater_last_mode or the override,
\* id_updater_battle_target or the override) and the model's type
Configs ==
    [tavern : BOOLEAN, bypass : BOOLEAN, type : {"text", "image"},
     mode : {"direct_chat", "battle"}, target : {"A", "B"}]

\* the client's request gets one more message
TMessage(role, content) ==
    /\ t_pc = "idle"
    /\ Len(t_in) < MaxMsgs
    /\ t_in' = Append(t_in, Message(role, content))
    /\ UNCHANGED <<t_pc, t_cfg, t_out, e_pc, e_in, e_files, e_removed, e_text, nonConvVars>>

\* convert_openai_to_lmarena_payload
TConvert(cfg) ==
    /\ t_pc = "idle"
    /\ t_pc' = "done"
    /\ t_cfg' = cfg
    /\ t_out' = message_templates(t_in, cfg)
    /\ UNCHANGED <<t_in, e_pc, e_in, e_files, e_removed, e_text, nonConvVars>>

TranslateNext ==
    \/ \E role \in Roles, content \in Contents : TMessage(role, content)
    \/ \E cfg \in Configs : TConvert(cfg)

TranslateSpec == Init /\ [][TranslateNext]_vars

\* ------------------------------ create_lmarena_request_body: string content
\* the characters of a content: "t" standing for a backtick, "s" for a blank, and "D"
\* for one whole data URI (data:image/png;base64,AAAA), which the patterns match as
\* a unit
ContentChars == {"t", "s", "D"}

IsTick(c, i) == i \in 1..Len(c) /\ c[i] = "t"

SetMin(S) == CHOOSE x \in S : \A y \in S : x <= y

\* ``` at position i
FenceAt(c, i) == IsTick(c, i) /\ IsTick(c, i + 1) /\ IsTick(c, i + 2)

\* the last position of the match of code_block_pattern that starts at i (0: none):
\* ```[\s\S]*?``` is tried first, then `[^`\n]+`
MatchEnd(c, i) ==
    LET closing == {j \in (i + 3)..Len(c) : FenceAt(c, j)}
        ticks == {k \in (i + 1)..Len(c) : IsTick(c, k)}
    IN IF FenceAt(c, i) /\ closing # {}
       THEN SetMin(closing) + 2
       ELSE IF IsTick(c, i) /\ ticks # {} /\ SetMin(ticks) > i + 1
       THEN SetMin(ticks)
       ELSE 0

\* re.finditer(code_block_pattern, content) from position i on: the matches, left to
\* right and not overlapping, as pairs <<first, last>>
RECURSIVE code_blocks(_, _)
code_blocks(c, i) ==
    IF i > Len(c) THEN {}
    ELSE IF MatchEnd(c, i) = 0 THEN code_blocks(c, i + 1)
    ELSE {<<i, MatchEnd(c, i)>>} \cup code_blocks(c, MatchEnd(c, i) + 1)

\* `start <= match.start() < end` for one of the code blocks
in_code_block(c, p) == \E b \in code_blocks(c, 1) : b[1] <= p /\ p <= b[2]

\* the matches of the data URI pattern that do not start in a code block
matches(c) == {p \in 1..Len(c) : c[p] = "D" /\ ~in_code_block(c, p)}

\* the elements of a set of numbers in ascending order
RECURSIVE Ascending(_)
Ascending(S) == IF S = {} THEN <<>> ELSE <<SetMin(S)>> \o Ascending(S \ {SetMin(S)})

\* the positions re.sub leaves, then .strip(): the blanks at either end go too (only
\* when there was a match)
Kept(c) ==
    LET left == (1..Len(c)) \ matches(c)
        body == {p \in left : c[p] # "s"}
    IN IF matches(c) = {} THEN 1..Len(c)
       ELSE {p \in left : \E a \in body : a <= p /\ \E b \in body : p <= b}

TextOf(c, S) == [i \in 1..Cardinality(S) |-> c[Ascending(S)[i]]]

\* the client's message content gets one more character
EChar(ch) ==
    /\ e_pc = "idle"
    /\ Len(e_in) < MaxContent
    /\ e_in' = Append(e_in, ch)
    /\ UNCHANGED <<e_pc, e_files, e_removed, e_text, t_pc, t_in, t_cfg, t_out, nonConvVars>>

\* create_lmarena_request_body on a message whose content is the string e_in
EExtract ==
    /\ e_pc = "idle"
    /\ e_pc' = "done"
    /\ e_files' = Ascending(matches(e_in))
    /\ e_removed' = (1..Len(e_in)) \ Kept(e_in)
    /\ e_text' = TextOf(e_in, Kept(e_in))
    /\ UNCHANGED <<e_in, t_pc, t_in, t_cfg, t_out, nonConvVars>>

ExtractNext ==
    \/ \E ch \in ContentChars : EChar(ch)
    \/ EExtract

ExtractSpec == Init /\ [][ExtractNext]_vars
\* ------------------------------------------------------------ pool claims
RECURSIVE SumSeq(_)
SumSeq(q) == IF q = <<>> THEN 0 ELSE Head(q) + SumSeq(Tail(q))

InUseCount(m) == Cardinality({i \in 1..Len(session_pools[m]) : session_pools[m][i].status = IN_USE})

\* C2 (as stated): in every state, per pool, the number of in-use sessions equals the
\* number of acquire calls that returned a session and whose session has not been
\* released since.
C2_InUseEqualsUnreleased ==
    \A m \in Models : InUseCount(m) = SumSeq(unreleased[m])

\* C2 (amended): in every state, per pool, the number of in-use sessions equals the
\* number of acquire returns whose pool entry has since been hit neither by
\* release_session nor by mark_unhealthy.
C2_InUseEqualsLeases ==
    \A m \in Models : InUseCount(m) = SumSeq(leases[m])

\* an in-use session next to one that mark_unhealthy took out of a lease
C2_Witness ==
    \E m \in Models :
        /\ InUseCount(m) = 1
        /\ \E i \in 1..Len(session_pools[m]) :
              session_pools[m][i].status = UNHEALTHY /\ unreleased[m][i] = 1

\* C5: an acquire_session call that returns a session returns the first session of the
\* pool whose status was available when it was selected, leaves it in-use in the same
\* step, and no earlier acquire still holds it.
C5_AcquireTakesFirstAvailable ==
    [][\A t \in Tasks :
          (acq[t].pc # "returned" /\ acq'[t].pc = "returned" /\ acq'[t].idx > 0) =>
             LET m == acq'[t].model
                 i == acq'[t].idx
             IN /\ session_pools[m][i].status = AVAILABLE
                /\ \A j \in 1..(i - 1) : session_pools[m][j].status # AVAILABLE
                /\ session_pools'[m][i].status = IN_USE
                /\ leases[m][i] = 0
                /\ leases'[m][i] = 1]_vars

\* two acquire calls on one model hold the two sessions of its pool, in pool order
C5_Witness ==
    /\ acq[1].pc = "returned" /\ acq[2].pc = "returned"
    /\ acq[1].model = acq[2].model
    /\ acq[1].idx = 1 /\ acq[2].idx = 2
    /\ \A i \in 1..2 : session_pools[acq[1].model][i].status = IN_USE

BecameAvailable(m) ==
    \E i \in 1..Len(session_pools'[m]) :
        /\ session_pools'[m][i].status = AVAILABLE
        /\ i > Len(session_pools[m]) \/ session_pools[m][i].status # AVAILABLE

\* C6: whenever release_session or add_session makes a session of a model available
\* while acquirers are parked on that model's wait queue, the acquirer parked longest
\* is woken by that step.
C6_AvailableWakesLongestParked ==
    [][\A m \in Models :
          (queue_getters[m] # <<>> /\ BecameAvailable(m)) =>
             acq'[Head(queue_getters[m])].pc # "waiting"]_vars

\* C9: a session's status only moves available -> in-use, in-use -> available, or to
\* unhealthy; once unhealthy it stays unhealthy (so no later acquire returns it), and
\* it stays in its pool.
C9_UnhealthyIsTerminal ==
    [][\A m \in Models : \A i \in 1..Len(session_pools[m]) :
          /\ i <= Len(session_pools'[m])
          /\ session_pools'[m][i].session_id = session_pools[m][i].session_id
          /\ \/ session_pools'[m][i].status = session_pools[m][i].status
             \/ session_pools'[m][i].status = UNHEALTHY
             \/ session_pools[m][i].status = AVAILABLE /\ session_pools'[m][i].status = IN_USE
             \/ session_pools[m][i].status = IN_USE /\ session_pools'[m][i].status = AVAILABLE]_vars

\* --------------------------------------------------------- program claims
PeerItems(q) == SelectSeq(q, LAMBDA d : d.n > 0)

Pending(r) ==
    IF rx_blocked # <<>> /\ rx_blocked[1].rid = r THEN <<rx_blocked[1].data>> ELSE <<>>

C3_AcquirePairedWithOneRelease ==
    \A r \in Tasks :
        /\ hrel[r] <= hacq[r]
        /\ hacq[r] = IF acq[r].pc = "returned" /\ acq[r].idx > 0 THEN 1 ELSE 0
        /\ hpc[r] \in {"done", "cancelled"} => hrel[r] = hacq[r]

\* one request ended on the registry's rejection, another had its stream cancelled by
\* the client, a third path: both had a session and released it once
C3_Witness ==
    \E r1, r2 \in Tasks :
        /\ r1 # r2
        /\ hpc[r1] = "done" /\ http[r1] = 500 /\ hacq[r1] = 1 /\ hrel[r1] = 1
        /\ spc[r2] = "cancelled" /\ hacq[r2] = 1 /\ hrel[r2] = 1

C7_WaitTimeoutAnswered504 ==
    \A r \in Tasks :
        (acq[r].pc = "returned" /\ acq[r].why = "timeout") =>
            /\ http[r] = 504
            /\ active_requests[r] = "absent"
            /\ ~response_channels[r]
            /\ hacq[r] = 0 /\ hrel[r] = 0

\* C10: no session id occurs more than once across all pools.
C10_SessionIdInOnePoolOnce ==
    \A sid \in SessionIds :
        Cardinality({mi \in Models \X (1..MaxAdds + 1) :
                        /\ mi[2] <= Len(session_pools[mi[1]])
                        /\ session_pools[mi[1]][mi[2]].session_id = sid}) <= 1

\* the wake-up path of acquire_session is never entered: no sentinel is ever stored
NoSentinelEverStored ==
    /\ \A m \in Models : queue_items[m] = 0
    /\ \A t \in Tasks : acq[t].pc # "woken" /\ acq[t].why # "woke_no_session"


\* ------------------------------------------------- registry and stream claims
\* the registry never holds more active entries than the configured cap
RegistryWithinCap == ActiveCount <= max_concurrent

\* add_request refused the request: the handler obtained a session and went on to its
\* finally clause without a send task having been created
Rejected(r) == hacq[r] = 1 /\ hpc[r] \in {"finally", "done"} /\ stask[r] = "none"

\* C11: the registry never holds more active entries than the configured cap; a
\* request whose add was attempted at the cap is not registered and its client is
\* answered HTTP 503.
C11_CapRejectionAnswered503 ==
    /\ RegistryWithinCap
    /\ \A r \in Tasks : Rejected(r) => active_requests[r] = "absent" /\ http[r] = 503

\* RequestStatus in the order a request is meant to pass through it; TIMEOUT and
\* ERROR are the terminal ones
StatusRank(s) ==
    IF s = PENDING THEN 1
    ELSE IF s = SENT_TO_BROWSER THEN 2
    ELSE IF s = PROCESSING THEN 3
    ELSE 4

\* C12: the status of a registered request only moves forward along pending, sent,
\* processing, terminal: no step moves it to an earlier status (processing back to
\* sent), and a request in a terminal status keeps it until it is evicted.
C12_StatusOnlyMovesForward ==
    [][\A r \in Tasks :
          (active_requests[r] # "absent" /\ active_requests'[r] # "absent") =>
              /\ StatusRank(active_requests'[r]) >= StatusRank(active_requests[r])
              /\ active_requests[r] \in {TIMEOUT, ERROR} =>
                    active_requests'[r] = active_requests[r]]_vars

\* a terminal event ("[DONE]" or an error) is in, or has passed through, the channel
HasTerminalEvent(taken, q) ==
    \E i \in 1..Len(taken \o q) : (taken \o q)[i].kind \in {"done", "error"}

\* C13: a terminal registry operation pushes its terminal event onto the request's
\* response channel and then evicts the request: whenever a request leaves the
\* registry a terminal event is in, or has passed through, its channel, and a request
\* whose status is terminal (error, timeout) is registered only while the operation
\* is still suspended in its push.
C13_TerminalOpsPushThenEvict ==
    [][\A r \in Tasks :
          /\ (active_requests[r] # "absent" /\ active_requests'[r] = "absent") =>
                 HasTerminalEvent(consumed'[r], response_queue'[r])
          /\ active_requests'[r] \in {TIMEOUT, ERROR} => tput'[r] > 0]_vars


\* the error items the server itself has put on a queue
ErrorsIn(q) == Len(SelectSeq(q, LAMBDA d : d.kind = "error" /\ d.n = 0))

\* the step in which the peer's connection is lost
Disconnects == browser_ws # 0 /\ browser_ws' = 0

\* C14: when the peer disconnects, a request whose status is sent or processing stays
\* registered with its status and its response queue as they were, and a watcher is
\* armed for it; the only steps that put an error on its queue or end it with a
\* time-out are those of a watcher whose sleep of the per-request timeout is over
\* (and its own send task failing, which is no consequence of the disconnect).
C14_DisconnectSparesSentAndProcessing ==
    [][\A r \in Tasks :
          active_requests[r] \in {SENT_TO_BROWSER, PROCESSING} =>
              /\ Disconnects =>
                    /\ active_requests'[r] = active_requests[r]
                    /\ response_queue'[r] = response_queue[r]
                    /\ watch'[r] = watch[r] + 1
              /\ (\/ ErrorsIn(response_queue'[r]) > ErrorsIn(response_queue[r])
                  \/ active_requests'[r] = TIMEOUT)
                 => (watch'[r] < watch[r] \/ tput'[r] < tput[r] \/ stask'[r] # stask[r])]_vars

\* the peer is gone, a request in status processing is still registered with a chunk
\* waiting on its queue and no error on it, and its watcher is asleep; the other
\* request's orphaned channel has been given the disconnect error
C14_Witness ==
    \E r, o \in Tasks :
        /\ browser_ws = 0
        /\ active_requests[r] = PROCESSING
        /\ watch[r] = 1
        /\ Len(response_queue[r]) = 1 /\ ErrorsIn(response_queue[r]) = 0
        /\ active_requests[o] = "absent" /\ ErrorsIn(response_queue[o]) = 1

\* registered and not yet terminal
InFlight(r) == active_requests[r] \in {PENDING, SENT_TO_BROWSER, PROCESSING}

\* something is on its way that will end the wait of r's stream: a watcher asleep or
\* suspended in its put, a terminal event on the queue or about to be put, or the
\* send task still to run or to return
EndPending(r) ==
    \/ watch[r] > 0
    \/ tput[r] > 0
    \/ HasTerminalEvent(<<>>, response_queue[r] \o Pending(r))
    \/ stask[r] \in {"start", "sent"}

\* C15: every request that is in flight when the peer disconnects, one whose send to
\* the peer was still in progress included, has a watcher armed for it at the
\* disconnect; and while the peer is away no in-flight request is left with nothing
\* that will end it.
C15_DisconnectArmsWatchdogForInFlight ==
    [][/\ Disconnects => \A r \in Tasks : InFlight(r) => watch'[r] = watch[r] + 1
       /\ browser_ws' = 0 => \A r \in Tasks : InFlight(r)' => EndPending(r)']_vars


\* the step that handles a reconnection_handshake
Handshakes == ws_ack = <<>> /\ ws_ack' # <<>>

\* the ids of a handshake, as a set
IdSet(ids) == {ids[i] : i \in 1..Len(ids)}

\* the handshake ids that are in the registry
Matched(ids) == {r \in IdSet(ids) : active_requests[r] # "absent"}

\* C16: a reconnection_handshake re-binds the response channel of exactly the listed
\* ids that are in the registry, changes nothing for the others, and is answered by
\* one restoration_ack whose restored_count is the size of the intersection of the
\* listed ids with the registry.
C16_HandshakeRebindsIntersection ==
    [][Handshakes =>
          LET ids == ws_ack'[1].ids IN
          /\ Len(ws_ack') = 1
          /\ ws_ack'[1].restored_count = Cardinality(Matched(ids))
          /\ \A r \in Tasks :
                /\ response_channels'[r] = (response_channels[r] \/ r \in Matched(ids))
                /\ r \notin Matched(ids) => active_requests'[r] = active_requests[r]
                /\ response_queue'[r] = response_queue[r]]_vars

\* what the loop counts: the entries of the list whose id is in the registry
RestoredCountIsMatchingEntries ==
    [][Handshakes =>
          LET ids == ws_ack'[1].ids IN
          /\ Len(ws_ack') = 1
          /\ ws_ack'[1].restored_count =
                Cardinality({i \in 1..Len(ids) : active_requests[ids[i]] # "absent"})
          /\ \A r \in Tasks :
                /\ response_channels'[r] = (response_channels[r] \/ r \in Matched(ids))
                /\ r \notin Matched(ids) => active_requests'[r] = active_requests[r]
                /\ response_queue'[r] = response_queue[r]]_vars

\* C17: once a reconnection handshake has restored a request, the watcher armed at the
\* earlier disconnect does not time it out: while the peer is connected, no watcher
\* step changes the status of a restored request, evicts it or puts an error on its
\* queue.
C17_RestoredRequestNotTimedOut ==
    [][\A r \in Tasks :
          (r \in restored /\ browser_ws # 0 /\ watch'[r] < watch[r]) =>
              /\ active_requests'[r] = active_requests[r]
              /\ response_queue'[r] = response_queue[r]]_vars

Last(s) == s[Len(s)]

\* how often frame f occurs in s
Occurrences(s, f) == Len(SelectSeq(s, LAMBDA x : x = f))

\* C18: the SSE stream of an accepted streaming request that has ended (other than by
\* the client going away) ends with a frame carrying a finish_reason immediately
\* followed by `data: [DONE]`, and [DONE] occurs once, as the last frame.
C18_StreamEndsFinishThenDone ==
    \A r \in Tasks :
        (http[r] = 200 /\ spc[r] = "done") =>
            /\ Len(sse[r]) >= 2
            /\ sse[r][Len(sse[r]) - 1] = "finish"
            /\ Last(sse[r]) = "done"
            /\ Occurrences(sse[r], "done") = 1

\* C19: when the last item a stream has taken from its channel is an error (an error
\* dict put by the server, or an error relayed from upstream), the stream has ended
\* and its last two frames are the error frame and `data: [DONE]`, the only [DONE].
C19_ErrorFrameThenOneDone ==
    \A r \in Tasks :
        (consumed[r] # <<>> /\ Last(consumed[r]).kind = "error") =>
            /\ spc[r] = "done"
            /\ Len(sse[r]) >= 2
            /\ sse[r][Len(sse[r]) - 1] = "error"
            /\ Last(sse[r]) = "done"
            /\ Occurrences(sse[r], "done") = 1

\* one stream ended on the watcher's time-out error after content had been yielded,
\* the other on an error relayed from upstream
C19_Witness ==
    \E r, o \in Tasks :
        /\ r # o
        /\ Len(consumed[r]) = 2 /\ Last(consumed[r]) = ErrorItem(r)
        /\ sse[r] = <<"content", "error", "done">>
        /\ consumed[o] # <<>> /\ Last(consumed[o]).kind = "error" /\ Last(consumed[o]).n > 0
        /\ spc[o] = "done"

\* the stream of r is polling an empty queue for a request the peer has been sent,
\* the peer is connected and nothing is on its way to the queue
WaitsOnSilentPeer(r) ==
    /\ browser_ws # 0
    /\ spc[r] = "running"
    /\ stask[r] = "done"
    /\ InFlight(r)
    /\ response_queue[r] = <<>>
    /\ Pending(r) = <<>>

\* C20: a request whose stream waits on a connected but silent peer has a time-out
\* pending that will end it with a timeout error.
C20_SilentPeerTimesOut ==
    \A r \in Tasks : WaitsOnSilentPeer(r) => (watch[r] > 0 \/ tput[r] > 0)

\* ---------------------------------------------------------------------------
\* the text of the content frames of a stream=true response, in order
RECURSIVE StreamText(_)
StreamText(out) ==
    IF out = <<>> THEN <<>>
    ELSE (IF Head(out).k = "content" THEN Head(out).text ELSE <<>>) \o StreamText(Tail(out))

ContentFrames(out) == SelectSeq(out, LAMBDA f : f.k = "content")

\* C21: for the same items ending in "[DONE]", the content of the stream=false response
\* is the in-order concatenation of the content deltas of the stream=true frames, and
\* that is every character the peer sent, once, in order.
C21_NonStreamEqualsStreamConcat ==
    c_pc = "done" =>
        /\ c_resp[1].text = StreamText(c_out)
        /\ StreamText(c_out) = [i \in 1..c_text |-> i]

\* a response whose text went out by a size flush or a timed flush, then by the
\* end-of-stream flush
C21_Witness ==
    /\ c_pc = "done"
    /\ c_text = MaxText
    /\ Len(ContentFrames(c_out)) >= 2
    /\ Len(ContentFrames(c_out)[Len(ContentFrames(c_out))].text) < MIN_CHUNK_SIZE
    /\ c_since < MAX_BUFFER_TIME

\* ---------------------------------------------------------------------------
\* a step that yields a content frame
YieldsContent ==
    /\ Len(ContentFrames(c_out')) > Len(ContentFrames(c_out))
    /\ c_out'[Len(c_out) + 1].k = "content"

\* C22: buffered text is never held longer than MAX_BUFFER_TIME plus one poll step
\* while the stream is live.
C22_BufferHeldAtMostMaxPlusPoll == c_pc = "run" => c_held <= MAX_BUFFER_TIME + PollTicks

\* a content frame is yielded only with MIN_CHUNK_SIZE characters or more, or
\* MAX_BUFFER_TIME after the last flush, or at the end of the stream; and the end of
\* the stream leaves nothing in the buffer
C22_FlushOnlyWhenDue ==
    [][/\ YieldsContent =>
             \/ Len(c_out'[Len(c_out) + 1].text) >= MIN_CHUNK_SIZE
             \/ c_since >= MAX_BUFFER_TIME
             \/ c_pc' = "done"
       /\ c_pc' = "done" => streaming_buffer' = <<>>]_vars

\* ---------------------------------------------------------------------------
\* the human-readable note appended for finish reason content-filter
FilterSuffix == "content-filter-note"

EndsWithSuffix(t) == t # <<>> /\ t[Len(t)] = FilterSuffix

\* C23: when the reason reported is content-filter, the assistant text ends with the
\* human-readable suffix, for stream=true and for stream=false.
C23_ContentFilterSuffixAppended ==
    (c_pc = "done" /\ c_resp[1].reason = "content-filter") =>
        /\ EndsWithSuffix(c_resp[1].text)
        /\ EndsWithSuffix(StreamText(c_out))

\* the reason reported is the one the generator holds when "[DONE]" arrives, "stop" if
\* it holds none, the same for both modes
C23_ReasonReportedIsLastHeld ==
    c_pc = "done" =>
        /\ c_resp[1].reason = (IF finish_reason = "none" THEN "stop" ELSE finish_reason)
        /\ c_out[Len(c_out) - 1].reason = c_resp[1].reason

\* ---------------------------------------------------------------------------
\* the request was ended by an upstream error reported by the peer
EndedByUpstreamError == b_pc = "done" /\ b_cause # <<>>

ErrorFramesOf(fr) == SelectSeq(fr, LAMBDA f : f.k = "error")

\* what the claim asks of a request ended by error event `event`
AnsweredAs(event, status) ==
    IF b_stream
    THEN /\ b_http = 200
         /\ ErrorFramesOf(b_frames) = <<BFrame("error", event)>>
         /\ b_frames[Len(b_frames)].k = "done"
    ELSE /\ b_http = status
         /\ b_code = event

\* C24: an upstream error whose text contains 413 or, in any case, "too large",
\* delivered as an error object or as an error JSON in the chunk stream, is answered
\* as attachment_too_large: HTTP 413 with that code for stream=false, 200 with one
\* error frame then [DONE] for stream=true.
C24_TooLargeAnswered413 ==
    (EndedByUpstreamError /\ SaysTooLarge(b_cause[1].feats)) =>
        AnsweredAs("attachment_too_large", 413)

\* the same for errors delivered as an error object only
C24_TooLargeErrorObjectAnswered413 ==
    (EndedByUpstreamError /\ SaysTooLarge(b_cause[1].feats)
        /\ b_cause[1].delivery = "object") =>
        AnsweredAs("attachment_too_large", 413)

\* ---------------------------------------------------------------------------
\* C25: when the challenge pattern matches in an upstream error message or in the
\* chunk buffer, the bridge sends a refresh to the peer, the stream gets the
\* challenge error frame then [DONE], and the link stays connected.
C25_ChallengeRefreshesAndReports ==
    [][(b_cause = <<>> /\ b_cause' # <<>> /\ SaysChallenge(b_cause'[1].feats)) =>
          /\ b_refresh' = b_refresh + 1
          /\ bridge_ws' = bridge_ws
          /\ b_stream' =>
                /\ ErrorFramesOf(b_frames') = <<BFrame("error", "cloudflare")>>
                /\ b_frames'[Len(b_frames')].k = "done"]_vars

\* the same for messages that do not also say 413 / too large
C25_ChallengeAloneRefreshesAndReports ==
    [][(b_cause = <<>> /\ b_cause' # <<>> /\ SaysChallenge(b_cause'[1].feats)
          /\ ~SaysTooLarge(b_cause'[1].feats)) =>
          /\ b_refresh' = b_refresh + 1
          /\ bridge_ws' = bridge_ws
          /\ b_stream' =>
                /\ ErrorFramesOf(b_frames') = <<BFrame("error", "cloudflare")>>
                /\ b_frames'[Len(b_frames')].k = "done"]_vars

\* ---------------------------------------------------------------------------
\* C26: at most one peer connection is open at any time; accepting a second one
\* leaves only the newer one open.
C26_AtMostOnePeerConnection == Cardinality(ws_open) <= 1

\* an open connection is bound whenever one is open (what closing the older connection
\* on replacement would also guarantee)
C26_OpenConnectionIsBound == ws_open # {} => browser_ws \in ws_open

\* ---------------------------------------------------------------------------
\* C27: the step in which the heartbeat counts its third consecutive miss and raises
\* the alert also leaves the link disconnected (browser_ws is None).
C27_ThreeMissesDisconnect == [][hb_alerts' > hb_alerts => browser_ws' = 0]_vars

\* a pong resets the miss counter, and the counter only grows at a check that finds the
\* pong overdue
C27_MissesCountOverduePongs ==
    [][/\ missed_pongs' > missed_pongs => PongOverdue /\ missed_pongs' = missed_pongs + 1
       /\ (\E c \in ws_open : hb_silence' = 0 /\ hb_silence > 0) => missed_pongs' = 0]_vars

\* the step in which the client of r is found to have gone after r was accepted
ClientAborts(r) == spc[r] \in {"ready", "running"} /\ spc'[r] = "cancelled"

\* C28: when the client aborts an accepted request, abort_request with its id is sent
\* to the peer if one is connected, its response channel is dropped, it is evicted
\* from the registry and its session has been released.
C28_ClientAbortCleansUp ==
    [][\A r \in Tasks :
          ClientAborts(r) =>
              /\ browser_ws # 0 => r \in aborted'
              /\ ~response_channels'[r]
              /\ active_requests'[r] = "absent"
              /\ hrel'[r] = hacq'[r]]_vars

\* the chat request of r has ended: answered with an error status, cancelled while
\* waiting, or accepted and its response stream over
Terminated(r) ==
    /\ hpc[r] \in {"done", "cancelled"}
    /\ http[r] = 200 => spc[r] \in {"done", "cancelled"}

\* C29: a chat request that has terminated, on whatever path, has no entry in the
\* request registry and none in the response-channel map.
C29_TerminatedLeavesNoEntry ==
    \A r \in Tasks :
        Terminated(r) => active_requests[r] = "absent" /\ ~response_channels[r]

\* nothing has been done on behalf of r
NoTrace(r) ==
    /\ acq[r] = Idle
    /\ hacq[r] = 0 /\ hrel[r] = 0
    /\ active_requests[r] = "absent"
    /\ ~response_channels[r]
    /\ live_from[r] < 0
    /\ stask[r] = "none" /\ spc[r] = "none"
    /\ r \notin aborted

\* the step in which chat_completions makes its first checks
Arrives(r) == hpc[r] = "new" /\ hpc'[r] # "new"

\* C30: a chat request that arrives while no peer is connected is answered 503, one
\* that names a model absent from MODEL_REGISTRY is answered 404, and a request
\* answered 503 or 404 has acquired no session, is not registered, has no response
\* channel and had nothing sent to the peer.
C30_NoPeer503UnknownModel404 ==
    [][\A r \in Tasks :
          /\ (Arrives(r) /\ browser_ws = 0) => http'[r] = 503
          /\ (Arrives(r) /\ browser_ws # 0 /\ hmodel'[r] \notin MODEL_REGISTRY) =>
                 http'[r] = 404
          /\ http'[r] \in {503, 404} => NoTrace(r)']_vars

\* one request was refused for the missing peer and the other for its model, while a
\* session was there to be had
C30_Witness ==
    \E r, o \in Tasks :
        /\ http[r] = 503 /\ hpc[r] = "done"
        /\ http[o] = 404 /\ hpc[o] = "done" /\ hmodel[o] = "m2"
        /\ PoolTotal > 0

\* C30 for api_server.py: a request naming a model that is not listed, arriving while
\* the peer is connected, is answered 404, and nothing is sent to the peer.
C30_BridgeUnknownModel404 ==
    (b_pc # "idle" /\ ~b_known /\ b_http # 503) => (b_http = 404 /\ b_sent = 0)

\* api_server.py without a peer: 503, no channel, nothing sent
C30_BridgeNoPeer503 ==
    [][(b_pc = "idle" /\ b_pc' # "idle" /\ ~bridge_ws) =>
          (b_http' = 503 /\ ~b_channel' /\ b_sent' = 0)]_vars

\* ---------------------------------------------------------------------------
\* the tasks that are inside `await ....send_text(...)` on the peer socket: the send
\* tasks of requests, and the receive loop sending restoration_ack
SocketWriters ==
    {<<"send_to_browser_task", r>> : r \in {t \in Tasks : stask[t] = "sent"}}
        \cup (IF ws_ack # <<>> THEN {<<"websocket_endpoint", 0>>} ELSE {})

\* C31: at most one task is inside a write to the peer socket at any time.
C31_OneSocketWriterAtATime == Cardinality(SocketWriters) <= 1

\* ---------------------------------------------------------------------------
\* the peer's next message for request id rid arrives
Arrival(rid) == peer_count'[rid] = peer_count[rid] + 1

\* C32: no response queue ever holds more than MaxQueue items; a peer message for a
\* request whose queue is full is held by the receive loop, which takes no further
\* message meanwhile, and is put at the tail of that queue once there is room.
C32_BoundedQueueBlocksReceiveLoop ==
    [][/\ \A r \in Tasks : Len(response_queue'[r]) <= MaxQueue
       /\ \A r \in Tasks :
             (Arrival(r) /\ response_channels[r] /\ Len(response_queue[r]) >= MaxQueue) =>
                 /\ rx_blocked' # <<>>
                 /\ rx_blocked'[1].rid = r
                 /\ rx_blocked'[1].data.n = peer_count'[r]
                 /\ response_queue' = response_queue
       /\ rx_blocked # <<>> =>
             /\ peer_count' = peer_count
             /\ rx_blocked' # rx_blocked =>
                   /\ rx_blocked' = <<>>
                   /\ Len(response_queue[rx_blocked[1].rid]) < MaxQueue
                   /\ response_queue'[rx_blocked[1].rid] =
                        Append(response_queue[rx_blocked[1].rid], rx_blocked[1].data)]_vars

\* the receive loop is held on a full queue whose consumer is running, with the first
\* message already consumed in order
C32_Witness ==
    /\ rx_blocked # <<>>
    /\ Len(response_queue[rx_blocked[1].rid]) = MaxQueue
    /\ spc[rx_blocked[1].rid] = "running"
    /\ rx_blocked[1].data.n = MaxChunks

\* ---------------------------------------------------------------------------
\* a request that is registered and not terminal
Unterminated(r) == active_requests[r] \in {PENDING, SENT_TO_BROWSER, PROCESSING}

\* the shutdown has happened, the peer connection has gone and every disconnect handler
\* has run to its end
ShutdownOver ==
    SHUTTING_DOWN /\ ws_open = {} /\ shut_rest = <<>> /\ fin = <<>> /\ rx_blocked = <<>>

\* C33: once the server has shut down and its peer connection has gone, no request that
\* was pending when the shutdown began is still registered and not terminal.
C33_ShutdownTerminatesPending == ShutdownOver => \A r \in shut_pending : ~Unterminated(r)

\* C33, the shutdown step alone: the background tasks are cancelled (this part holds)
C33_ShutdownCancelsTasks ==
    [][(SHUTTING_DOWN' /\ ~SHUTTING_DOWN) =>
          /\ \A r \in Tasks : stask'[r] \notin {"start", "sent"} /\ watch'[r] = 0 /\ tput'[r] = 0
          /\ hb_tasks' = {}]_vars

\* a disconnect during the shutdown has timed requests out and is suspended on a full queue
C33_ShutdownTimeoutSuspended == shut_rest # <<>> /\ Len(shut_rest[1]) = 2

\* ---------------------------------------------------------------------------
\* the payload's messages without role positions and without the injected message
Translated ==
    LET n == IF t_cfg.bypass /\ t_cfg.type = "text" THEN Len(t_out) - 1 ELSE Len(t_out)
    IN [i \in 1..n |-> Message(t_out[i].role, t_out[i].content)]

\* the request's system contents ('developer' counts as 'system') and other messages
SystemContents == ContentsOf(SelectSeq(processed_messages(t_in), IsSystem))

OtherMessages == SelectSeq(processed_messages(t_in), NotSystem)

TavernDone == t_pc = "done" /\ t_cfg.tavern

Injected == t_pc = "done" /\ t_cfg.bypass /\ t_cfg.type = "text"

\* C35: with bypass mode on and a chat model the payload ends with exactly one injected
\* message {user, " ", participantPosition a}, in every mode and for either target.
C35_PlaceholderKeepsPositionA ==
    Injected =>
        /\ Len(t_out) = Len(IF t_cfg.tavern THEN TavernMerge(processed_messages(t_in))
                            ELSE processed_messages(t_in)) + 1
        /\ t_out[Len(t_out)] = [role |-> "user", content |-> <<" ">>,
                                 participantPosition |-> "a"]

\* C35, the part that holds: one message {user, " "} is appended if and only if bypass
\* mode is on and the model's type is text
C35_PlaceholderIffBypassAndText ==
    t_pc = "done" =>
        LET base == IF t_cfg.tavern THEN TavernMerge(processed_messages(t_in))
                    ELSE processed_messages(t_in)
        IN IF t_cfg.bypass /\ t_cfg.type = "text"
           THEN /\ Len(t_out) = Len(base) + 1
                /\ t_out[Len(t_out)].role = "user" /\ t_out[Len(t_out)].content = <<" ">>
           ELSE Len(t_out) = Len(base)

\* the injected message of a battle request aimed at B
C35_BattleBReached ==
    Injected /\ t_cfg.mode = "battle" /\ t_cfg.target = "B" /\ t_in # <<>>

\* ---------------------------------------------------------------------------
\* the length of the run of backticks that starts at i
RECURSIVE RunLen(_, _)
RunLen(c, i) == IF IsTick(c, i) THEN 1 + RunLen(c, i + 1) ELSE 0

\* Markdown's inline code spans from position i on: a run of n backticks opens a span
\* that the next run of exactly n backticks closes; a run with no such partner is
\* literal text. The result is the set of positions strictly inside a span.
RECURSIVE InsideCodeSpan(_, _)
InsideCodeSpan(c, i) ==
    IF i > Len(c) THEN {}
    ELSE IF ~IsTick(c, i) THEN InsideCodeSpan(c, i + 1)
    ELSE LET n == RunLen(c, i)
             closers == {j \in (i + n)..Len(c) :
                            IsTick(c, j) /\ ~IsTick(c, j - 1) /\ RunLen(c, j) = n}
         IN IF closers = {} THEN InsideCodeSpan(c, i + n)
            ELSE ((i + n)..(SetMin(closers) - 1))
                     \cup InsideCodeSpan(c, SetMin(closers) + n)

FilesOf(f) == {f[i] : i \in 1..Len(f)}

\* C36: no character inside a code span is removed from the content, and no file is
\* made from a data URI inside a code span.
C36_CodeSpansUntouched ==
    e_pc = "done" =>
        /\ e_removed \cap InsideCodeSpan(e_in, 1) = {}
        /\ FilesOf(e_files) \cap InsideCodeSpan(e_in, 1) = {}

\* C36, the part that holds: nothing is removed and no file is made inside the
\* stretches the code's own pattern takes for code blocks
C36_MatchedBlocksUntouched ==
    e_pc = "done" =>
        \A p \in 1..Len(e_in) :
            in_code_block(e_in, p) => (p \notin e_removed /\ p \notin FilesOf(e_files))

\* a data URI outside every code span has been taken as a file and removed, one inside
\* a span has been left
C36_ExtractionReached ==
    /\ e_pc = "done"
    /\ \E p \in FilesOf(e_files) : p \in e_removed /\ p \notin InsideCodeSpan(e_in, 1)
    /\ \E p \in InsideCodeSpan(e_in, 1) : e_in[p] = "D" /\ p \notin e_removed

\* ---------------------------------------------------------------------------
\* the handler of a connection that browser_ws does not reference ends
StaleHandlerEnds == \E c \in ws_open \ {browser_ws} : ws_open' = ws_open \ {c}

\* C37: the end of a replaced connection's handler leaves the link bound to the newer
\* connection, the response-channel map as it is and no watcher armed.
C37_StaleEndLeavesLinkBound ==
    [][StaleHandlerEnds =>
          /\ browser_ws' = browser_ws
          /\ response_channels' = response_channels
          /\ watch' = watch]_vars

\* ---------------------------------------------------------------------------
\* the heartbeat loop of connection c makes its check and finds the pong overdue
CountsMiss(c) == c \in hb_due /\ c \notin hb_due' /\ missed_pongs' > missed_pongs

\* C38: the heartbeat loop of a connection counts a miss (and so stops) only when that
\* connection has itself gone more than two intervals without a pong.
C38_MissOnlyAfterOwnSilence ==
    [][\A c \in 1..connects : CountsMiss(c) => hb_age[c] > 2]_vars

\* at most one heartbeat loop per connection: a loop is started only for the
\* connection just accepted
C38_OneHeartbeatPerConnection ==
    [][\A c \in hb_tasks' \ hb_tasks : c = connects' /\ connects' = connects + 1]_vars

\* ---------------------------------------------------------------------------
\* the message is at the tail of the request's own queue, or the receive loop is
\* suspended putting it there
PutOnOwnQueue(rid) ==
    \/ /\ Len(response_queue'[rid]) = Len(response_queue[rid]) + 1
       /\ Last(response_queue'[rid]).tag = rid
       /\ Last(response_queue'[rid]).n = peer_count'[rid]
       /\ \A o \in Tasks \ {rid} : response_queue'[o] = response_queue[o]
    \/ /\ rx_blocked' # <<>>
       /\ rx_blocked'[1].rid = rid
       /\ rx_blocked'[1].data.tag = rid
       /\ rx_blocked'[1].data.n = peer_count'[rid]
       /\ response_queue' = response_queue

\* C39: a chunk for an id that has no response_channels entry goes to the queue of the
\* registered request of that id, whose channel entry is made again, handshake or not;
\* a chunk for an id in neither map changes nothing.
C39_RegistryRoutesWithoutHandshake ==
    [][\A rid \in Tasks :
          (Arrival(rid) /\ ~response_channels[rid]) =>
              IF active_requests[rid] # "absent"
              THEN /\ PutOnOwnQueue(rid)
                   /\ response_channels'[rid]
              ELSE /\ response_channels' = response_channels
                   /\ response_queue' = response_queue
                   /\ active_requests' = active_requests
                   /\ rx_blocked' = rx_blocked]_vars

\* after a disconnect and a reconnect without handshake the stream has consumed a
\* chunk that re-created its channel, and a message for an id in neither map has been
\* dropped
C39_Witness ==
    /\ \E r \in Tasks :
          /\ r \in rebound
          /\ r \notin restored
          /\ connects >= 2
          /\ spc[r] = "running"
          /\ consumed[r] # <<>>
          /\ Last(consumed[r]).n = peer_count[r]
          /\ Last(consumed[r]).n > 0

\* a message for an id in neither map has been dropped
C39_DropReached == \E r \in Tasks : r \in dropped /\ active_requests[r] = "absent"
====
